---- MODULE Spec2Model ----
(***************************************************************************)
(* Fail2Shield: the dashboard's Fail2banManager (fail2ban_manager.py), the *)
(* helpers it uses (utils.py) and the handlers of app.py that drive it,    *)
(* running as concurrent dashboard sessions against one fail2ban server.   *)
(*                                                                         *)
(* Text is a sequence of one-character strings, so that validation and     *)
(* sanitisation are computed character by character as the code does.      *)
(***************************************************************************)
EXTENDS Integers, Sequences, FiniteSets, TLC

(***************************************************************************)
(* Text helpers (Python str.split, str.strip, str.partition)               *)
(***************************************************************************)

\* str.split(sep): the parts of s between occurrences of sep ("" gives [""])
Split(s, sep) ==
    LET seps == {i \in 1..Len(s) : s[i] = sep}
        \* the k-th occurrence of sep, 0 and Len(s) + 1 standing for the two ends
        at(k) == IF k = 0 THEN 0
                 ELSE IF k > Cardinality(seps) THEN Len(s) + 1
                 ELSE CHOOSE i \in seps : Cardinality({j \in seps : j < i}) = k - 1
    IN [k \in 1..(Cardinality(seps) + 1) |-> SubSeq(s, at(k - 1) + 1, at(k) - 1)]

Chars(s) == {s[i] : i \in 1..Len(s)}

Whitespace == {" ", "\t", "\n", "\r"}

RECURSIVE LStrip(_)
LStrip(s) == IF s # <<>> /\ Head(s) \in Whitespace THEN LStrip(Tail(s)) ELSE s

RECURSIVE RStrip(_)
RStrip(s) ==
    IF s # <<>> /\ s[Len(s)] \in Whitespace THEN RStrip(SubSeq(s, 1, Len(s) - 1)) ELSE s

\* str.strip()
Strip(s) == RStrip(LStrip(s))

\* index of the first occurrence of c in s, 0 when absent
FirstIndex(s, c) ==
    IF c \in Chars(s) THEN CHOOSE i \in 1..Len(s) : s[i] = c /\ \A k \in 1..(i - 1) : s[k] # c
    ELSE 0

(***************************************************************************)
(* utils.validate_ip_address: ipaddress.ip_address(ip) succeeds            *)
(***************************************************************************)

Digits == {"0", "1", "2", "3", "4", "5", "6", "7", "8", "9"}

HexDigits == Digits \cup {"a", "b", "c", "d", "e", "f", "A", "B", "C", "D", "E", "F"}

DigitVal(c) ==
    CASE c = "0" -> 0 [] c = "1" -> 1 [] c = "2" -> 2 [] c = "3" -> 3 [] c = "4" -> 4
      [] c = "5" -> 5 [] c = "6" -> 6 [] c = "7" -> 7 [] c = "8" -> 8 [] c = "9" -> 9

RECURSIVE DecimalValue(_)
DecimalValue(s) ==
    IF s = <<>> THEN 0
    ELSE 10 * DecimalValue(SubSeq(s, 1, Len(s) - 1)) + DigitVal(s[Len(s)])

\* IPv4Address._parse_octet accepts the octet
OctetOk(o) ==
    /\ o # <<>>
    /\ Chars(o) \subseteq Digits
    /\ Len(o) <= 3
    /\ (o # <<"0">> => o[1] # "0")
    /\ DecimalValue(o) <= 255

\* IPv4Address(s) succeeds
IsIPv4(s) ==
    /\ "/" \notin Chars(s)
    /\ s # <<>>
    /\ LET octets == Split(s, ".") IN
       /\ Len(octets) = 4
       /\ \A i \in 1..4 : OctetOk(octets[i])

\* IPv6Address._parse_hextet accepts the hextet
HextetOk(h) ==
    /\ h # <<>>
    /\ Chars(h) \subseteq HexDigits
    /\ Len(h) <= 4

\* IPv6Address._ip_int_from_string(s) succeeds (s without its scope id)
IPv6BodyOk(s) ==
    /\ s # <<>>
    /\ LET parts0 == Split(s, ":") IN
       /\ Len(parts0) >= 3
       /\ LET last0 == parts0[Len(parts0)]
              embedded == "." \in Chars(last0)
              \* an embedded IPv4 tail is replaced by its two hextets
              parts == IF embedded
                         THEN SubSeq(parts0, 1, Len(parts0) - 1) \o << <<"0">>, <<"0">> >>
                         ELSE parts0
              n == Len(parts)
              skips == {i \in 2..(n - 1) : parts[i] = <<>>}
          IN
          /\ (embedded => IsIPv4(last0))
          /\ n <= 9
          /\ Cardinality(skips) <= 1
          /\ IF skips # {}
               THEN LET k == CHOOSE i \in skips : TRUE
                        hi == IF parts[1] = <<>> THEN k - 2 ELSE k - 1
                        lo == IF parts[n] = <<>> THEN n - k - 1 ELSE n - k
                    IN
                    /\ (parts[1] = <<>> => hi = 0)
                    /\ (parts[n] = <<>> => lo = 0)
                    /\ 8 - (hi + lo) >= 1
                    /\ \A i \in 1..hi : HextetOk(parts[i])
                    /\ \A i \in (n - lo + 1)..n : HextetOk(parts[i])
               ELSE /\ n = 8
                    /\ \A i \in 1..n : HextetOk(parts[i])

\* IPv6Address(s) succeeds: an optional %scope_id, then the address
IsIPv6(s) ==
    /\ "/" \notin Chars(s)
    /\ LET p == FirstIndex(s, "%") IN
       IF p = 0 THEN IPv6BodyOk(s)
       ELSE LET scope == SubSeq(s, p + 1, Len(s)) IN
            /\ scope # <<>>
            /\ "%" \notin Chars(scope)
            /\ IPv6BodyOk(SubSeq(s, 1, p - 1))

validate_ip_address(ip) == IsIPv4(ip) \/ IsIPv6(ip)

(***************************************************************************)
(* ipaddress.ip_address(ip).is_private, as get_ip_geolocation asks it      *)
(***************************************************************************)

HexDigitVal(c) ==
    CASE c \in Digits -> DigitVal(c)
      [] c \in {"a", "A"} -> 10 [] c \in {"b", "B"} -> 11 [] c \in {"c", "C"} -> 12
      [] c \in {"d", "D"} -> 13 [] c \in {"e", "E"} -> 14 [] c \in {"f", "F"} -> 15

RECURSIVE HexValue(_)
HexValue(h) ==
    IF h = <<>> THEN 0
    ELSE 16 * HexValue(SubSeq(h, 1, Len(h) - 1)) + HexDigitVal(h[Len(h)])

\* the four octets of a valid IPv4 address
IPv4Octets(s) == LET octets == Split(s, ".") IN [i \in 1..4 |-> DecimalValue(octets[i])]

\* the eight hextets of a valid IPv6 address (IPv6Address._ip_int_from_string)
IPv6Hextets(s) ==
    LET p == FirstIndex(s, "%")
        body == IF p = 0 THEN s ELSE SubSeq(s, 1, p - 1)
        parts0 == Split(body, ":")
        last0 == parts0[Len(parts0)]
        embedded == "." \in Chars(last0)
        o == IPv4Octets(last0)
        tail == IF embedded THEN <<o[1] * 256 + o[2], o[3] * 256 + o[4]>> ELSE <<>>
        texts == IF embedded THEN SubSeq(parts0, 1, Len(parts0) - 1) ELSE parts0
        m == Len(texts)
        skips == {i \in 2..(IF embedded THEN m ELSE m - 1) : texts[i] = <<>>}
        Values(ts) == [i \in 1..Len(ts) |-> HexValue(ts[i])]
    IN  IF skips = {} THEN Values(texts) \o tail
        ELSE LET k == CHOOSE i \in skips : TRUE
                 hi == IF texts[1] = <<>> THEN <<>> ELSE SubSeq(texts, 1, k - 1)
                 lo == IF k < m /\ texts[m] = <<>> THEN <<>> ELSE SubSeq(texts, k + 1, m)
                 zeros == 8 - Len(hi) - Len(lo) - Len(tail)
             IN  Values(hi) \o [i \in 1..zeros |-> 0] \o Values(lo) \o tail

\* an address of IPv4Address._constants._private_networks, by its octets
IPv4Private(o) ==
    \/ o[1] = 0                                             \* 0.0.0.0/8
    \/ o[1] = 10                                            \* 10.0.0.0/8
    \/ o[1] = 127                                           \* 127.0.0.0/8
    \/ o[1] = 169 /\ o[2] = 254                             \* 169.254.0.0/16
    \/ o[1] = 172 /\ o[2] \in 16..31                        \* 172.16.0.0/12
    \/ o[1] = 192 /\ o[2] = 0 /\ o[3] = 0 /\ o[4] \in 0..7  \* 192.0.0.0/29
    \/ o[1] = 192 /\ o[2] = 0 /\ o[3] = 0 /\ o[4] \in 170..171  \* 192.0.0.170/31
    \/ o[1] = 192 /\ o[2] = 0 /\ o[3] = 2                   \* 192.0.2.0/24
    \/ o[1] = 192 /\ o[2] = 168                             \* 192.168.0.0/16
    \/ o[1] = 198 /\ o[2] \in 18..19                        \* 198.18.0.0/15
    \/ o[1] = 198 /\ o[2] = 51 /\ o[3] = 100                \* 198.51.100.0/24
    \/ o[1] = 203 /\ o[2] = 0 /\ o[3] = 113                 \* 203.0.113.0/24
    \/ o[1] >= 240                                          \* 240.0.0.0/4, 255.255.255.255/32

\* an address of IPv6Address._constants._private_networks, by its hextets
IPv6Private(h) ==
    \/ h = <<0, 0, 0, 0, 0, 0, 0, 1>>                        \* ::1/128
    \/ h = <<0, 0, 0, 0, 0, 0, 0, 0>>                        \* ::/128
    \/ h[1] = 256 /\ h[2] = 0 /\ h[3] = 0 /\ h[4] = 0        \* 100::/64
    \/ h[1] = 8193 /\ h[2] < 512                            \* 2001::/23
    \/ h[1] = 8193 /\ h[2] = 2 /\ h[3] = 0                  \* 2001:2::/48
    \/ h[1] = 8193 /\ h[2] = 3512                           \* 2001:db8::/32
    \/ h[1] = 8193 /\ h[2] \in 16..31                       \* 2001:10::/28
    \/ h[1] \div 512 = 126                                  \* fc00::/7
    \/ h[1] \div 64 = 1018                                  \* fe80::/10

\* a mutation: is_private that knows the RFC 1918 networks only
is_private_Rfc1918Only(ip) ==
    /\ IsIPv4(ip)
    /\ LET o == IPv4Octets(ip) IN
       \/ o[1] = 10
       \/ o[1] = 172 /\ o[2] \in 16..31
       \/ o[1] = 192 /\ o[2] = 168

\* ipaddress.ip_address(ip).is_private for a valid address; an IPv4-mapped
\* IPv6 address answers for the IPv4 address it maps
is_private(ip) ==
    IF IsIPv4(ip) THEN IPv4Private(IPv4Octets(ip))
    ELSE LET h == IPv6Hextets(ip) IN
         IF SubSeq(h, 1, 6) = <<0, 0, 0, 0, 0, 65535>>
           THEN IPv4Private(<<h[7] \div 256, h[7] % 256, h[8] \div 256, h[8] % 256>>)
         ELSE IPv6Private(h)

(***************************************************************************)
(* utils.sanitize_input: strip the deny-list characters, then whitespace   *)
(***************************************************************************)

\* the grave accent cannot be written inside a TLA+ string: this token stands for it
Backtick == "BACKTICK"

dangerous_chars == {";", "&", "|", Backtick, "$", "(", ")", "<", ">", "\"", "'", "\\"}

sanitize_input(input_str) ==
    Strip(SelectSeq(input_str, LAMBDA c : c \notin dangerous_chars))

(***************************************************************************)
(* str(int) as the code formats a ban time into argv, and the integer the  *)
(* server reads back from it                                               *)
(***************************************************************************)

DigitChar(d) ==
    CASE d = 0 -> "0" [] d = 1 -> "1" [] d = 2 -> "2" [] d = 3 -> "3" [] d = 4 -> "4"
      [] d = 5 -> "5" [] d = 6 -> "6" [] d = 7 -> "7" [] d = 8 -> "8" [] d = 9 -> "9"

RECURSIVE NatToStr(_)
NatToStr(n) == IF n < 10 THEN <<DigitChar(n)>> ELSE NatToStr(n \div 10) \o <<DigitChar(n % 10)>>

\* Python str(n) for an int n
IntToStr(n) == IF n < 0 THEN <<"-">> \o NatToStr(0 - n) ELSE NatToStr(n)

\* the server's reading of a numeric argument
StrToInt(s) ==
    IF s # <<>> /\ Head(s) = "-" THEN 0 - DecimalValue(Tail(s)) ELSE DecimalValue(s)

(***************************************************************************)
(* utils.safe_execute_command                                              *)
(***************************************************************************)

\* config.COMMAND_TIMEOUT, seconds
COMMAND_TIMEOUT == 10

\* timeout=None in a call of safe_execute_command
None == "None"

TimedOutText == "Command timed out"

\* subprocess.run(command, capture_output=True, text=True, timeout=timeout) on a
\* child process proc: what the call does, a completed process or an exception
subprocess_run(proc, timeout) ==
    IF proc.spawn_error # ""
      THEN [kind |-> "Exception", text |-> proc.spawn_error,
            returncode |-> 0, stdout |-> "", stderr |-> ""]
    ELSE IF proc.duration > timeout
      THEN [kind |-> "TimeoutExpired", text |-> "Command timed out after seconds",
            returncode |-> 0, stdout |-> "", stderr |-> ""]
    ELSE [kind |-> "CompletedProcess", text |-> "",
          returncode |-> proc.returncode, stdout |-> proc.stdout, stderr |-> proc.stderr]

\* a mutation: no TimeoutExpired handler, the timeout falls to "except Exception"
safe_execute_command_NoTimeoutHandler(proc, timeout) ==
    LET t == IF timeout = None THEN COMMAND_TIMEOUT ELSE timeout
        r == subprocess_run(proc, t)
    IN  IF r.kind = "CompletedProcess"
          THEN [raised |-> FALSE, value |-> <<r.returncode = 0, r.stdout, r.stderr>>]
        ELSE [raised |-> FALSE, value |-> <<FALSE, "", r.text>>]

\* the result of safe_execute_command(command, timeout) when the child process
\* behaves as proc: a returned (success, stdout, stderr), or a raised exception
safe_execute_command(proc, timeout) ==
    LET t == IF timeout = None THEN COMMAND_TIMEOUT ELSE timeout
        r == subprocess_run(proc, t)
    IN  IF r.kind = "CompletedProcess"
          THEN [raised |-> FALSE, value |-> <<r.returncode = 0, r.stdout, r.stderr>>]
        ELSE IF r.kind = "TimeoutExpired"
          THEN [raised |-> FALSE, value |-> <<FALSE, "", TimedOutText>>]
        ELSE [raised |-> FALSE, value |-> <<FALSE, "", r.text>>]

(***************************************************************************)
(* The inputs the sessions draw from                                       *)
(***************************************************************************)

\* total number of dashboard handlers that run in a behaviour
MaxCalls == 2

\* total number of direct calls of manager methods in a behaviour
MaxManagerCalls == 2

\* total number of client invocations that go wrong in a behaviour
MaxFaults == 1

\* total number of script runs that load the data (refresh_data from run())
MaxRefresh == 2

Sessions == {"s1", "s2"}

Sshd == <<"s", "s", "h", "d">>
SshdInjected == <<"s", "s", "h", ";", "d">>
Web == <<"w", "e", "b">>

\* jail names a caller passes: a jail of the server, a name that only becomes
\* one once its deny-list character is stripped, and a jail the server lacks
JailInputs == {Sshd, SshdInjected, Web}

IpA == <<"1", ".", "1", ".", "1", ".", "1">>
IpShort == <<"1", "0", ".", "0", ".", "0">>
IpInjected == <<"1", ".", "1", ".", "1", ".", "1", ";">>
IpScoped == <<":", ":", "1", "%", "$", "x">>

\* IP strings a caller passes: an IPv4 address, an address with too few octets,
\* an address followed by a deny-list character, and an IPv6 address whose
\* scope id holds a deny-list character
IpInputs == {IpA, IpShort, IpInjected, IpScoped}

\* ban_time arguments: permanent, zero, a positive number of seconds
BanTimes == {-1, 0, 60}

(***************************************************************************)
(* The fail2ban server behind fail2ban-client (the enforcement mechanism)  *)
(***************************************************************************)

\* the jails of the server's configuration and the configuration each starts
\* with and returns to on reload
ConfiguredJails == {Sshd}

DefaultConfig == [bantime |-> 600, maxretry |-> 5, findtime |-> 600]

VARIABLES
    srvJails,         \* the jails running in the server
    srvConfig,        \* jail -> [bantime, maxretry, findtime]
    srvBans,          \* the bans in force: records [jail, ip, ttl], ttl -1 = permanent
    pc,               \* session -> where its handler stands
    call,             \* session -> the operation in progress and its arguments
    cmds,             \* session -> the commands the operation has issued, with results
    ret,              \* session -> what the operation returned
    shown,            \* session -> the message the dashboard showed for it
    jails_data,       \* session -> st.session_state.jails_data
    banned_ips_data,  \* session -> st.session_state.banned_ips_data
    ended,            \* the handler that ended in the last step, if one did: its
                      \* session, call, commands, result and message
    streak,           \* the successful permanent bans of one (jail, ip) that ended in a row
    srvRunning,       \* the fail2ban server process is up
    run,              \* session -> its latest script run: the results of its liveness
                      \* pings so far, whether it has loaded the data, and whether
                      \* it has rendered its tab
    ncalls,           \* handler invocations so far
    nfaults,          \* client invocations that went wrong so far
    nrefresh,         \* data loads of script runs so far
    geolocation_cache,  \* utils._geolocation_cache: ip -> geo_info
    cache_timestamps,   \* utils._cache_timestamps: ip -> time of the lookup that stored it
    now,              \* datetime.now(), in seconds
    geo,              \* caller -> where its get_ip_geolocation call stands
    geo_ended,        \* the lookup that returned in the last step, if one did
    nlookups,          \* calls of get_ip_geolocation so far
    auth_log,         \* the lines of the SSH authentication log
    fail2ban_log,     \* the lines of fail2ban.log
    ssh_lines,        \* parse_ssh_logs: the lines it read from the log
    ssh_entries,      \* render_ssh_analysis: ssh_entries
    ssh_stats,        \* render_ssh_analysis: ssh_stats, none before it is computed
    log_entries,      \* render_logs_viewer: log_entries
    nlines,           \* log lines written so far
    ssh_read,         \* how the last read of the authentication log went
    log_read,         \* how the last read of fail2ban.log went
    cache_timestamp,  \* session -> st.session_state.cache_timestamp
    last_update,      \* session -> st.session_state.last_update
    ui_state,         \* session -> show_config_editor, editing_jail and auto_refresh
    refreshed,        \* the latest call of refresh_data: its session, its force
                      \* argument and the status commands it issued
    status_lines,     \* the lines the command 'status sshd' prints
    status            \* what the latest get_jail_status made of them, none when
                      \* the text has changed since

geoVars == <<geolocation_cache, cache_timestamps, now, geo, geo_ended, nlookups>>

appVars == <<srvJails, srvConfig, srvBans, pc, call, cmds, ret, shown,
             jails_data, banned_ips_data, ended, streak, srvRunning, run,
             ncalls, nfaults, nrefresh>>

logVars == <<auth_log, fail2ban_log, ssh_lines, ssh_entries, ssh_stats, log_entries, nlines,
            ssh_read, log_read>>

cacheVars == <<cache_timestamp, last_update, ui_state, refreshed>>

statusVars == <<status_lines, status>>

viewVars == <<cacheVars, statusVars>>

vars == <<appVars, geoVars, logVars, viewVars>>

srvVars == <<srvJails, srvConfig, srvBans>>

uiVars == <<jails_data, banned_ips_data>>

\* argv of a fail2ban-client invocation: [client, 'set', jail, verb, arg] for the
\* set verbs, [client, verb, jail] for reload, start and stop
Command(verb, jail, arg) == [verb |-> verb, jail |-> jail, arg |-> arg]

SetVerbs == {"banip", "unbanip", "bantime", "maxretry", "findtime"}

\* what the server answers to [client, 'ping']
PongReply == "Server replied: pong"

\* what the client writes when it finds no server behind the socket
NoSocket == "ERROR Failed to access socket path"

\* the server's execution of a command: its exit status and the state it leaves
ServerExec(cmd) ==
    LET same == [returncode |-> 0, stdout |-> "0", stderr |-> "",
                 jails |-> srvJails, config |-> srvConfig, bans |-> srvBans]
        nojail == [same EXCEPT !.returncode = 255, !.stdout = "",
                               !.stderr = "Sorry but the jail does not exist"]
        j == cmd.jail
    IN  IF ~srvRunning THEN [same EXCEPT !.returncode = 255, !.stdout = "", !.stderr = NoSocket]
        ELSE IF cmd.verb = "ping" THEN [same EXCEPT !.stdout = PongReply]
        ELSE IF cmd.verb \in SetVerbs /\ j \notin srvJails THEN nojail
        ELSE IF cmd.verb = "banip" THEN
            IF \E b \in srvBans : b.jail = j /\ b.ip = cmd.arg THEN same
            ELSE [same EXCEPT !.stdout = "1",
                    !.bans = srvBans \cup
                        {[jail |-> j, ip |-> cmd.arg, ttl |-> srvConfig[j].bantime]}]
        ELSE IF cmd.verb = "unbanip" THEN
            [same EXCEPT !.bans = {b \in srvBans : ~(b.jail = j /\ b.ip = cmd.arg)}]
        ELSE IF cmd.verb = "bantime" THEN
            [same EXCEPT !.config = [srvConfig EXCEPT ![j].bantime = StrToInt(cmd.arg)]]
        ELSE IF cmd.verb = "maxretry" THEN
            [same EXCEPT !.config = [srvConfig EXCEPT ![j].maxretry = StrToInt(cmd.arg)]]
        ELSE IF cmd.verb = "findtime" THEN
            [same EXCEPT !.config = [srvConfig EXCEPT ![j].findtime = StrToInt(cmd.arg)]]
        ELSE IF j \notin ConfiguredJails THEN nojail
        ELSE IF cmd.verb = "reload" THEN
            [same EXCEPT !.jails = srvJails \cup {j},
                         !.config = [srvConfig EXCEPT ![j] = DefaultConfig]]
        ELSE IF cmd.verb = "start" THEN
            [same EXCEPT !.jails = srvJails \cup {j}]
        ELSE \* stop
            IF j \notin srvJails THEN nojail
            ELSE [same EXCEPT !.jails = srvJails \ {j},
                              !.bans = {b \in srvBans : b.jail # j}]

\* what can go wrong with one invocation of the client, besides the server's
\* own refusal: a non-zero exit with or without text on stderr, an answer that
\* comes after the timeout, no client binary to run
Faults == {"none", "exit1", "exit1_quiet", "slow", "oserror"}

\* the child process of one invocation under a fault; the command reaches the
\* server only when there is none
ChildProcess(fault, reply) ==
    LET p == [spawn_error |-> "", duration |-> 1,
              returncode |-> reply.returncode, stdout |-> reply.stdout,
              stderr |-> reply.stderr]
    IN  CASE fault = "none" -> p
          [] fault = "exit1" ->
                [p EXCEPT !.returncode = 255, !.stdout = "", !.stderr = NoSocket]
          [] fault = "exit1_quiet" -> [p EXCEPT !.returncode = 1, !.stdout = "", !.stderr = ""]
          [] fault = "slow" -> [p EXCEPT !.duration = COMMAND_TIMEOUT + 1]
          [] fault = "oserror" -> [p EXCEPT !.spawn_error = "[Errno 2] No such file or directory"]

\* one utils.safe_execute_command([client, ...]) by a session: the server state
\* it leaves and the log entry of the command: its result and, as the server
\* holds them right after it, the times of the bans of the command's jail and
\* address and the jail's bantime
Exec(cmd, fault) ==
    LET reply == ServerExec(cmd)
        res == safe_execute_command(ChildProcess(fault, reply), None)
        bans == IF fault = "none" THEN reply.bans ELSE srvBans
        config == IF fault = "none" THEN reply.config ELSE srvConfig
    IN  [jails |-> IF fault = "none" THEN reply.jails ELSE srvJails,
         config |-> config,
         bans |-> bans,
         raised |-> res.raised,
         entry |-> [cmd |-> cmd, fault |-> fault, result |-> res.value,
                    ttls |-> {b.ttl : b \in {x \in bans : x.jail = cmd.jail /\ x.ip = cmd.arg}}]]

(***************************************************************************)
(* Fail2banManager: the mutation methods                                   *)
(***************************************************************************)

\* a (success, message) message: the format string and the values put in it
Msg(fmt, ip, jail, ban_time) == [fmt |-> fmt, ip |-> ip, jail |-> jail, ban_time |-> ban_time]

NoMsg == Msg("", <<>>, <<>>, <<>>)

Returned(success, message) == [kind |-> "returned", success |-> success, message |-> message]

Raised == [kind |-> "raised", success |-> FALSE, message |-> NoMsg]

NoRet == [kind |-> "none", success |-> FALSE, message |-> NoMsg]

\* Python's  stderr or fallback
StderrOr(stderr, fallback) == IF stderr # "" THEN Msg(stderr, <<>>, <<>>, <<>>) ELSE fallback

\* the outcome of a method (or of a part of it): the server state it leaves,
\* the commands it issued, and what it returned, if it has returned
Outcome(x, log, done, r) ==
    [jails |-> x.jails, config |-> x.config, bans |-> x.bans,
     log |-> log, done |-> done, ret |-> r]

NoExec == [jails |-> srvJails, config |-> srvConfig, bans |-> srvBans]

InvalidIp == Returned(FALSE, Msg("Invalid IP address format", <<>>, <<>>, <<>>))

UpperLetters == <<"A", "B", "C", "D", "E", "F", "G", "H", "I", "J", "K", "L", "M",
                  "N", "O", "P", "Q", "R", "S", "T", "U", "V", "W", "X", "Y", "Z">>
LowerLetters == <<"a", "b", "c", "d", "e", "f", "g", "h", "i", "j", "k", "l", "m",
                  "n", "o", "p", "q", "r", "s", "t", "u", "v", "w", "x", "y", "z">>

\* the characters of a Python str the model holds as one value
OutputText(text) ==
    IF text = PongReply
      THEN <<"S", "e", "r", "v", "e", "r", " ", "r", "e", "p", "l", "i", "e", "d", ":", " ",
             "p", "o", "n", "g">>
    ELSE <<>>

\* str.lower() on the letters of ASCII
Lower(s) ==
    [i \in 1..Len(s) |->
        IF s[i] \in Chars(UpperLetters)
          THEN LowerLetters[FirstIndex(UpperLetters, s[i])]
        ELSE s[i]]

\* Python's  sub in s
Contains(s, sub) ==
    \E i \in 0..(Len(s) - Len(sub)) : \A k \in 1..Len(sub) : s[i + k] = sub[k]

\* a mutation: is_fail2ban_running that takes every answer for a pong
is_fail2ban_running_AnyAnswer(result) == TRUE

\* Fail2banManager.is_fail2ban_running, on the result of [client, 'ping']
is_fail2ban_running(result) ==
    result[1] /\ Contains(Lower(OutputText(result[2])), <<"p", "o", "n", "g">>)

\* a mutation: ban_ip without its validate_ip_address guard
ban_ip_NoValidation(jail_name, ip_address, fault) ==
    LET jail == sanitize_input(jail_name)
        ip == sanitize_input(ip_address)
        x == Exec(Command("banip", jail, ip), fault)
    IN  Outcome(x, <<x.entry>>, TRUE,
                IF x.raised THEN Raised
                ELSE IF x.entry.result[1]
                  THEN Returned(TRUE, Msg("Successfully banned {ip_address} in jail {jail_name}",
                                          ip, jail, <<>>))
                ELSE Returned(FALSE, StderrOr(x.entry.result[3],
                                              Msg("Failed to ban {ip_address}", ip, <<>>, <<>>))))

\* Fail2banManager.ban_ip(jail_name, ip_address)
ban_ip_method(jail_name, ip_address, fault) ==
    IF ~validate_ip_address(ip_address) THEN Outcome(NoExec, <<>>, TRUE, InvalidIp)
    ELSE
    LET jail == sanitize_input(jail_name)
        ip == sanitize_input(ip_address)
        x == Exec(Command("banip", jail, ip), fault)
    IN  Outcome(x, <<x.entry>>, TRUE,
                IF x.raised THEN Raised
                ELSE IF x.entry.result[1]
                  THEN Returned(TRUE, Msg("Successfully banned {ip_address} in jail {jail_name}",
                                          ip, jail, <<>>))
                ELSE Returned(FALSE, StderrOr(x.entry.result[3],
                                              Msg("Failed to ban {ip_address}", ip, <<>>, <<>>))))

\* Fail2banManager.ban_ip_with_time(jail_name, ip_address, ban_time), up to and
\* with its 'set <jail> bantime' command, whose result it drops
ban_ip_with_time_bantime(jail_name, ip_address, ban_time, fault) ==
    IF ~validate_ip_address(ip_address) THEN Outcome(NoExec, <<>>, TRUE, InvalidIp)
    ELSE
    LET jail == sanitize_input(jail_name)
        x == Exec(Command("bantime", jail,
                          IF ban_time = -1 THEN <<"-", "1">> ELSE IntToStr(ban_time)), fault)
    IN  Outcome(x, <<x.entry>>, x.raised, IF x.raised THEN Raised ELSE NoRet)

\* ban_ip_with_time from its 'set <jail> banip' command to its return
ban_ip_with_time_banip(jail_name, ip_address, ban_time, log, fault) ==
    LET jail == sanitize_input(jail_name)
        ip == sanitize_input(ip_address)
        x == Exec(Command("banip", jail, ip), fault)
    IN  Outcome(x, Append(log, x.entry), TRUE,
                IF x.raised THEN Raised
                ELSE IF x.entry.result[1]
                  THEN Returned(TRUE,
                         IF ban_time = -1
                           THEN Msg("Successfully banned {ip_address} permanently in jail {jail_name}",
                                    ip, jail, <<>>)
                           ELSE Msg("Successfully banned {ip_address} for {ban_time} seconds in jail {jail_name}",
                                    ip, jail, IntToStr(ban_time)))
                ELSE Returned(FALSE, StderrOr(x.entry.result[3],
                                              Msg("Failed to ban {ip_address}", ip, <<>>, <<>>))))

\* Fail2banManager.unban_ip(jail_name, ip_address)
unban_ip_method(jail_name, ip_address, fault) ==
    IF ~validate_ip_address(ip_address) THEN Outcome(NoExec, <<>>, TRUE, InvalidIp)
    ELSE
    LET jail == sanitize_input(jail_name)
        ip == sanitize_input(ip_address)
        x == Exec(Command("unbanip", jail, ip), fault)
    IN  Outcome(x, <<x.entry>>, TRUE,
                IF x.raised THEN Raised
                ELSE IF x.entry.result[1]
                  THEN Returned(TRUE, Msg("Successfully unbanned {ip_address} from jail {jail_name}",
                                          ip, jail, <<>>))
                ELSE Returned(FALSE, StderrOr(x.entry.result[3],
                                              Msg("Failed to unban {ip_address}", ip, <<>>, <<>>))))

\* the body reload_jail, start_jail and stop_jail share: sanitize the jail name,
\* run [client, verb, jail], report
jail_command(verb, done_word, jail_name, fault) ==
    LET jail == sanitize_input(jail_name)
        x == Exec(Command(verb, jail, <<>>), fault)
    IN  Outcome(x, <<x.entry>>, TRUE,
                IF x.raised THEN Raised
                ELSE IF x.entry.result[1]
                  THEN Returned(TRUE, Msg("Successfully " \o done_word \o " jail {jail_name}",
                                          <<>>, jail, <<>>))
                ELSE Returned(FALSE, StderrOr(x.entry.result[3],
                                              Msg("Failed to " \o verb \o " jail {jail_name}",
                                                  <<>>, jail, <<>>))))

\* Fail2banManager.reload_jail(jail_name)
reload_jail_method(jail_name, fault) == jail_command("reload", "reloaded", jail_name, fault)

\* Fail2banManager.start_jail(jail_name)
start_jail_method(jail_name, fault) == jail_command("start", "started", jail_name, fault)

\* Fail2banManager.stop_jail(jail_name)
stop_jail_method(jail_name, fault) == jail_command("stop", "stopped", jail_name, fault)

(***************************************************************************)
(* app.py: the handlers of Fail2ShieldApp that mutate                      *)
(***************************************************************************)

BanTypes == {"Temporaire (selon jail)", "Temporaire personnalise", "Permanent"}

\* the durations of duration_map the sessions choose from
CustomDurations == {60}

\* custom_bantime as render_ip_management computes it from the radio and the
\* select box: a duration for the custom type, None for the others
CustomBantimes(ban_type) ==
    IF ban_type = "Temporaire personnalise" THEN {<<d>> : d \in CustomDurations} ELSE {<<>>}

\* Fail2ShieldApp.execute_ban: the manager method it calls and the ban_time it
\* passes (custom_bantime is <<>> for None; "and custom_bantime" is falsy for 0 too)
execute_ban(ban_type, custom_bantime) ==
    IF ban_type = "Permanent" THEN [op |-> "ban_ip_with_time", ban_time |-> <<-1>>]
    ELSE IF ban_type = "Temporaire personnalise" /\ custom_bantime # <<>>
                                                 /\ custom_bantime # <<0>>
      THEN [op |-> "ban_ip_with_time", ban_time |-> custom_bantime]
    ELSE [op |-> "ban_ip", ban_time |-> <<>>]

\* Fail2ShieldApp.save_jail_config, one 'set <jail> <param> <value>' at a time;
\* log holds the commands already issued
save_jail_config_set(param, jail_name, value, log, fault) ==
    LET x == Exec(Command(param, jail_name, IntToStr(value)), fault)
        all == Append(log, x.entry)
    IN  IF x.raised
          THEN Outcome(x, all, TRUE, Returned(FALSE, NoMsg))
        ELSE IF param # "findtime"
          THEN Outcome(x, all, FALSE, NoRet)
        ELSE Outcome(x, all, TRUE,
                     Returned(all[1].result[1] /\ all[2].result[1] /\ all[3].result[1], NoMsg))

\* the jails the dashboard offers as targets: the enabled ones of jails_data
active_jails(s) == {jails_data[s][i].name : i \in {k \in 1..Len(jails_data[s]) : jails_data[s][k].enabled}}

(***************************************************************************)
(* utils.get_ip_geolocation and its module-level cache                     *)
(***************************************************************************)

\* seconds a cache entry is served (utils.py: cache_age < 3600)
CacheValidSeconds == 3600

IP_API_TIMEOUT == 5

MAX_CONCURRENT_REQUESTS == 3

\* total number of lookups of one caller in a behaviour
MaxLookups == 3

\* total number of lookups of the concurrent callers in a behaviour
MaxBurst == 4

\* the threads that call get_ip_geolocation: the script runs of the sessions
GeoCallers == {"g1", "g2", "g3", "g4"}

GeoCaller == "g1"

IpPrivate == <<"1", "0", ".", "0", ".", "0", ".", "5">>
IpLoopback == <<"1", "2", "7", ".", "0", ".", "0", ".", "1">>
IpLinkLocal == <<"1", "6", "9", ".", "2", "5", "4", ".", "1", ".", "1">>
IpLoopback6 == <<":", ":", "1">>
IpPublic == <<"8", ".", "8", ".", "8", ".", "8">>

PublicIps == {IpPublic, IpA}

\* addresses looked up: private, loopback and link-local ones, public ones,
\* and a string that is no address
GeoInputs == {IpPrivate, IpLoopback, IpLinkLocal, IpLoopback6, IpShort} \cup PublicIps

\* the instants the clock is read at: a start, five minutes later, one second
\* short of an hour later, the hour, and five minutes past it
TimePoints == {0, 300, 3599, 3600, 3900}

\* the geo_info of the private-address branch
LocalGeoInfo ==
    [country |-> "Reseau Local", region |-> "Reseau Prive", city |-> "LAN",
     isp |-> "Reseau Local", org |-> "Reseau Prive", lat |-> 0, lon |-> 0,
     timezone |-> "Local"]

\* utils.get_default_geo_info()
get_default_geo_info ==
    [country |-> "Non disponible", region |-> "Non disponible", city |-> "Non disponible",
     isp |-> "Non disponible", org |-> "Non disponible", lat |-> 0, lon |-> 0,
     timezone |-> "Non disponible"]

\* dict.get(key, default)
Get(data, key, default) == IF key \in DOMAIN data THEN data[key] ELSE default

\* Python's  text or default, for a str or None
TextOr(text, default) == IF text \in {None, ""} THEN default ELSE text

\* the geo_info get_ip_geolocation builds from the provider's JSON
GeoInfoOf(data) ==
    [country |-> TextOr(Get(data, "country", None), "Non determine"),
     region |-> TextOr(Get(data, "regionName", None), "Non determine"),
     city |-> TextOr(Get(data, "city", None), "Non determine"),
     isp |-> TextOr(Get(data, "isp", None), "Non determine"),
     org |-> TextOr(Get(data, "org", None), "Non determine"),
     lat |-> Get(data, "lat", 0),
     lon |-> Get(data, "lon", 0),
     timezone |-> TextOr(Get(data, "timezone", None), "Non determine")]

\* what the provider may do with a request: answer in full, answer with
\* fields missing or empty, answer 'fail', refuse with 429, answer late, or
\* not be reachable
ProviderReplies ==
    {[error |-> "", duration |-> 1, status_code |-> 200,
      data |-> [status |-> "success", country |-> "United States", regionName |-> "Virginia",
                city |-> "Ashburn", isp |-> "Google LLC", org |-> "Google Public DNS",
                lat |-> 39, lon |-> -77, timezone |-> "America/New_York"]],
     [error |-> "", duration |-> 1, status_code |-> 200,
      data |-> [status |-> "success", country |-> "", city |-> "Paris", isp |-> None]],
     [error |-> "", duration |-> 1, status_code |-> 200,
      data |-> [status |-> "fail", message |-> "reserved range"]],
     [error |-> "", duration |-> 1, status_code |-> 429, data |-> [status |-> "fail"]],
     [error |-> "", duration |-> IP_API_TIMEOUT + 1, status_code |-> 200,
      data |-> [status |-> "success", country |-> "United States"]],
     [error |-> "ConnectionError", duration |-> 1, status_code |-> 0, data |-> [status |-> "fail"]]}

\* requests.get(url, timeout=timeout)
requests_get(reply, timeout) ==
    IF reply.error # "" THEN [raised |-> TRUE, status_code |-> 0, data |-> [status |-> "fail"]]
    ELSE IF reply.duration > timeout
      THEN [raised |-> TRUE, status_code |-> 0, data |-> [status |-> "fail"]]
    ELSE [raised |-> FALSE, status_code |-> reply.status_code, data |-> reply.data]

\* the provider part of get_ip_geolocation: the geo_info of a 200 answer with
\* status 'success'; everything else falls through to get_default_geo_info()
provider_geo_info(reply) ==
    LET response == requests_get(reply, IP_API_TIMEOUT) IN
    IF ~response.raised /\ response.status_code = 200
          /\ Get(response.data, "status", None) = "success"
      THEN GeoInfoOf(response.data)
    ELSE get_default_geo_info

\* a mutation: the cache test with <= for <
cache_hit_Inclusive(cache_age) == cache_age <= CacheValidSeconds

\* get_ip_geolocation: "cache_age < 3600"
cache_hit(cache_age) == cache_age < CacheValidSeconds

\* d[key] = value on a dict held as a function
DictSet(d, key, value) == [k \in DOMAIN d \cup {key} |-> IF k = key THEN value ELSE d[k]]

EmptyDict == [k \in {} |-> 0]

\* a lookup as a caller holds it: the address, current_time as read at its
\* start, the entry the cache held then (none, or its value and age), whether
\* the provider was called, and the geo_info to return
Lookup(at, ip, current_time, cached, called, geo_info) ==
    [pc |-> at, ip |-> ip, current_time |-> current_time, cached |-> cached,
     called |-> called, geo_info |-> geo_info]

NoLookup == Lookup("idle", <<>>, 0, <<>>, FALSE, get_default_geo_info)

GeoEnded(c, l) == [caller |-> c, lookup |-> l]

NoGeoEnded == GeoEnded("none", NoLookup)

\* get_ip_geolocation(ip) up to its first blocking point: an invalid address
\* returns the default; an entry younger than an hour is returned; a private
\* address stores the local geo_info; any other address goes to the provider
lookup(c, ip) ==
    /\ geo[c].pc = "idle"
    /\ nlookups' = nlookups + 1
    /\ LET hit == ip \in DOMAIN geolocation_cache /\ ip \in DOMAIN cache_timestamps
           cached == IF hit THEN <<[geo_info |-> geolocation_cache[ip],
                                    cache_age |-> now - cache_timestamps[ip]]>>
                     ELSE <<>>
           start == Lookup("idle", ip, now, cached, FALSE, get_default_geo_info)
       IN
       IF ~validate_ip_address(ip)
         THEN /\ geo_ended' = GeoEnded(c, [start EXCEPT !.cached = <<>>])
              /\ UNCHANGED <<geolocation_cache, geo>>
       ELSE IF hit /\ cache_hit(now - cache_timestamps[ip])
         THEN /\ geo_ended' = GeoEnded(c, [start EXCEPT !.geo_info = geolocation_cache[ip]])
              /\ UNCHANGED <<geolocation_cache, geo>>
       ELSE IF is_private(ip)
         THEN /\ geolocation_cache' = DictSet(geolocation_cache, ip, LocalGeoInfo)
              /\ geo' = [geo EXCEPT ![c] = [start EXCEPT !.pc = "store_timestamp",
                                                         !.geo_info = LocalGeoInfo]]
              /\ geo_ended' = NoGeoEnded
       ELSE /\ geo' = [geo EXCEPT ![c] = [start EXCEPT !.pc = "request", !.called = TRUE]]
            /\ geo_ended' = NoGeoEnded
            /\ UNCHANGED geolocation_cache
    /\ UNCHANGED <<viewVars, appVars, logVars, cache_timestamps, now>>

\* the provider's answer, or the lack of one, ends requests.get: the geo_info
\* is built and stored, _geolocation_cache[ip] = geo_info
response(c) ==
    /\ geo[c].pc = "request"
    /\ \E reply \in ProviderReplies :
          /\ geolocation_cache' = DictSet(geolocation_cache, geo[c].ip, provider_geo_info(reply))
          /\ geo' = [geo EXCEPT ![c].pc = "store_timestamp",
                                ![c].geo_info = provider_geo_info(reply)]
    /\ geo_ended' = NoGeoEnded
    /\ UNCHANGED <<viewVars, appVars, logVars, cache_timestamps, now, nlookups>>

\* _cache_timestamps[ip] = current_time; return geo_info
store_timestamp(c) ==
    /\ geo[c].pc = "store_timestamp"
    /\ cache_timestamps' = DictSet(cache_timestamps, geo[c].ip, geo[c].current_time)
    /\ geo' = [geo EXCEPT ![c] = NoLookup]
    /\ geo_ended' = GeoEnded(c, geo[c])
    /\ UNCHANGED <<viewVars, appVars, logVars, geolocation_cache, now, nlookups>>

\* time passes
tick ==
    /\ \E t \in TimePoints : t > now /\ now' = t
    /\ geo_ended' = NoGeoEnded
    /\ UNCHANGED <<viewVars, appVars, logVars, geolocation_cache, cache_timestamps, geo, nlookups>>

(***************************************************************************)
(* re.search for the patterns of utils.py: literals, the classes \d \w \s  *)
(* and . with greedy repetition, an optional literal and capture groups,   *)
(* tried in the order of a backtracking matcher                            *)
(***************************************************************************)

WordChars == Digits \cup {"_"} \cup {UpperLetters[i] : i \in 1..26} \cup {LowerLetters[i] : i \in 1..26}

\* no upper limit on a repetition: + and *
Unbounded == -1

Lit(s) == [k |-> "lit", s |-> s, cls |-> "", min |-> 1, max |-> 1, g |-> 0]

\* (?:s)?
Opt(s) == [k |-> "opt", s |-> s, cls |-> "", min |-> 0, max |-> 1, g |-> 0]

\* \d, \w, \s or . repeated min to max times
Rep(cls, min, max) == [k |-> "rep", s |-> <<>>, cls |-> cls, min |-> min, max |-> max, g |-> 0]

Open(g) == [k |-> "open", s |-> <<>>, cls |-> "", min |-> 0, max |-> 0, g |-> g]

Close(g) == [k |-> "close", s |-> <<>>, cls |-> "", min |-> 0, max |-> 0, g |-> g]

InClass(c, cls) ==
    CASE cls = "d" -> c \in Digits
      [] cls = "w" -> c \in WordChars
      [] cls = "s" -> c \in Whitespace
      [] cls = "." -> c # "\n"

\* s occurs in text at position pos
HasAt(text, s, pos) ==
    /\ pos + Len(s) - 1 <= Len(text)
    /\ \A k \in 1..Len(s) : text[pos + k - 1] = s[k]

\* how many characters of the class follow from pos, up to limit of them
RunLen(text, pos, cls, limit) ==
    LET room == IF limit = Unbounded \/ limit > Len(text) - pos + 1
                  THEN Len(text) - pos + 1
                ELSE limit
    IN CHOOSE n \in 0..room :
          /\ \A k \in 0..(n - 1) : InClass(text[pos + k], cls)
          /\ (n = room \/ ~InClass(text[pos + n], cls))

NoGroups == [g \in 1..3 |-> [from |-> 0, to |-> 0]]

\* the groups of the first way, in the matcher's order, that the pattern from
\* its i-th node matches text at pos, as <<groups>>; <<>> when there is none
RECURSIVE MatchFrom(_, _, _, _, _)
MatchFrom(p, text, i, pos, groups) ==
    IF i > Len(p) THEN <<groups>>
    ELSE LET node == p[i] IN
         CASE node.k = "lit" ->
                IF HasAt(text, node.s, pos)
                  THEN MatchFrom(p, text, i + 1, pos + Len(node.s), groups)
                ELSE <<>>
           [] node.k = "opt" ->
                LET taken == IF HasAt(text, node.s, pos)
                               THEN MatchFrom(p, text, i + 1, pos + Len(node.s), groups)
                             ELSE <<>>
                IN IF taken # <<>> THEN taken ELSE MatchFrom(p, text, i + 1, pos, groups)
           [] node.k = "open" ->
                MatchFrom(p, text, i + 1, pos, [groups EXCEPT ![node.g].from = pos])
           [] node.k = "close" ->
                MatchFrom(p, text, i + 1, pos, [groups EXCEPT ![node.g].to = pos])
           [] node.k = "rep" ->
                \* a greedy repetition: the longest run first, then one
                \* character less, down to min: the longest that lets the
                \* rest of the pattern match
                LET longest == RunLen(text, pos, node.cls, node.max)
                    tries == {<<n, MatchFrom(p, text, i + 1, pos + n, groups)>> :
                                n \in node.min..longest}
                    fits == {try \in tries : try[2] # <<>>}
                IN IF fits = {} THEN <<>>
                   ELSE (CHOOSE try \in fits : \A other \in fits : other[1] <= try[1])[2]

\* re.search(pattern, text): <<groups>> of the leftmost match, <<>> for None
re_search(p, text) ==
    LET tries == {<<start, MatchFrom(p, text, 1, start, NoGroups)>> :
                    start \in 1..(Len(text) + 1)}
        found == {try \in tries : try[2] # <<>>}
    IN IF found = {} THEN <<>>
       ELSE (CHOOSE try \in found : \A other \in found : try[1] <= other[1])[2]

\* match.group(g)
Group(text, m, g) == SubSeq(text, m[1][g].from, m[1][g].to - 1)

(***************************************************************************)
(* utils.parse_log_line and utils.parse_ssh_log_line                       *)
(***************************************************************************)

AnyText == <<Rep(".", 0, Unbounded)>>

\* (\w+) as group g
Word(g) == <<Open(g), Rep("w", 1, Unbounded), Close(g)>>

\* (\d+\.\d+\.\d+\.\d+) as group g
DottedQuad(g) ==
    <<Open(g), Rep("d", 1, Unbounded), Lit(<<".">>), Rep("d", 1, Unbounded), Lit(<<".">>),
      Rep("d", 1, Unbounded), Lit(<<".">>), Rep("d", 1, Unbounded), Close(g)>>

\* (\d{2}:\d{2}:\d{2}
ClockTime == <<Rep("d", 2, 2), Lit(<<":">>), Rep("d", 2, 2), Lit(<<":">>), Rep("d", 2, 2)>>

\* \d{4}-\d{2}-\d{2}
IsoDate == <<Rep("d", 4, 4), Lit(<<"-">>), Rep("d", 2, 2), Lit(<<"-">>), Rep("d", 2, 2)>>

\* (\d{4}-\d{2}-\d{2} \d{2}:\d{2}:\d{2},\d{3})
Fail2banStamp ==
    <<Open(1)>> \o IsoDate \o <<Lit(<<" ">>)>> \o ClockTime
      \o <<Lit(<<",">>), Rep("d", 3, 3), Close(1)>>

\* (\w{3}\s+\d{1,2}\s+\d{2}:\d{2}:\d{2})
SyslogStamp ==
    <<Open(1), Rep("w", 3, 3), Rep("s", 1, Unbounded), Rep("d", 1, 2), Rep("s", 1, Unbounded)>>
      \o ClockTime \o <<Close(1)>>

\* (\d{4}-\d{2}-\d{2}T\d{2}:\d{2}:\d{2})
IsoStamp == <<Open(1)>> \o IsoDate \o <<Lit(<<"T">>)>> \o ClockTime \o <<Close(1)>>

TxtBan == <<"]", " ", "B", "A", "N", " ">>

TxtUnban == <<"]", " ", "U", "N", "B", "A", "N", " ">>

TxtFound == <<"]", " ", "F", "o", "u", "n", "d", " ">>

TxtAccepted == <<"A", "c", "c", "e", "p", "t", "e", "d", " ">>

TxtFor == <<" ", "f", "o", "r", " ">>

TxtFrom == <<" ", "f", "r", "o", "m", " ">>

TxtFailedPasswordFor == <<"F", "a", "i", "l", "e", "d", " ", "p", "a", "s",
    "s", "w", "o", "r", "d", " ", "f", "o", "r", " ">>

TxtInvalidUserOpt == <<"i", "n", "v", "a", "l", "i", "d", " ", "u", "s", "e",
    "r", " ">>

TxtFailed == <<"F", "a", "i", "l", "e", "d", " ">>

TxtAuthFailure == <<"a", "u", "t", "h", "e", "n", "t", "i", "c", "a", "t",
    "i", "o", "n", " ", "f", "a", "i", "l", "u", "r", "e">>

TxtRhost == <<"r", "h", "o", "s", "t", "=">>

TxtUser == <<"u", "s", "e", "r", "=">>

TxtInvalidUser == <<"I", "n", "v", "a", "l", "i", "d", " ", "u", "s", "e",
    "r", " ">>

TxtBreakIn == <<"P", "O", "S", "S", "I", "B", "L", "E", " ", "B", "R", "E",
    "A", "K", "-", "I", "N", " ", "A", "T", "T", "E", "M", "P", "T">>

TxtFromIp == <<"f", "r", "o", "m", " ">>

TxtDisconnected == <<"D", "i", "s", "c", "o", "n", "n", "e", "c", "t", "e",
    "d", " ", "f", "r", "o", "m", " ">>

Unknown == <<"u", "n", "k", "n", "o", "w", "n">>

\* r'<stamp>.*\[(\w+)\] <WORD> (\d+\.\d+\.\d+\.\d+)'
Fail2banPattern(word) ==
    Fail2banStamp \o AnyText \o <<Lit(<<"[">>)>> \o Word(2) \o <<Lit(word)>> \o DottedQuad(3)

\* parse_log_line: patterns, in the order of the dict
log_patterns ==
    <<[action |-> "ban", pattern |-> Fail2banPattern(TxtBan)],
      [action |-> "unban", pattern |-> Fail2banPattern(TxtUnban)],
      [action |-> "found", pattern |-> Fail2banPattern(TxtFound)]>>

\* r'<stamp>.*sshd.*<body>'
SshPattern(stamp, body) == stamp \o AnyText \o <<Lit(Sshd)>> \o AnyText \o body

\* the user and the address of the patterns  ... (\w+) from (\d+\.\d+\.\d+\.\d+)
UserFromIp == Word(2) \o <<Lit(TxtFrom)>> \o DottedQuad(3)

AcceptedBody == <<Lit(TxtAccepted), Rep("w", 1, Unbounded), Lit(TxtFor)>> \o UserFromIp

FailedPasswordBody == <<Lit(TxtFailedPasswordFor), Opt(TxtInvalidUserOpt)>> \o UserFromIp

FailedBody ==
    <<Lit(TxtFailed), Rep("w", 1, Unbounded), Lit(TxtFor), Opt(TxtInvalidUserOpt)>> \o UserFromIp

AuthFailureBody ==
    <<Lit(TxtAuthFailure)>> \o AnyText \o <<Lit(TxtRhost)>> \o DottedQuad(2)
      \o AnyText \o <<Lit(TxtUser)>> \o Word(3)

InvalidUserBody == <<Lit(TxtInvalidUser)>> \o UserFromIp

BreakInBody == <<Lit(TxtBreakIn)>> \o AnyText \o <<Lit(TxtFromIp)>> \o DottedQuad(2)

DisconnectBody ==
    <<Lit(TxtDisconnected), Opt(TxtInvalidUserOpt)>> \o Word(2) \o <<Lit(<<" ">>)>> \o DottedQuad(3)

\* the two timestamp forms of a family
Family(action, body) ==
    <<[action |-> action, pattern |-> SshPattern(SyslogStamp, body)],
      [action |-> action, pattern |-> SshPattern(IsoStamp, body)]>>

\* a mutation: the families with the generic 'failed' ahead of 'failed_password'
ssh_patterns_FailedFirst ==
    Family("accepted", AcceptedBody)
      \o Family("failed", FailedBody)
      \o <<[action |-> "failed", pattern |-> SshPattern(SyslogStamp, AuthFailureBody)]>>
      \o Family("failed_password", FailedPasswordBody)
      \o Family("invalid_user", InvalidUserBody)
      \o Family("break_in", BreakInBody)
      \o Family("disconnect", DisconnectBody)

\* parse_ssh_log_line: patterns, family by family in the order of the dict and
\* pattern by pattern in the order of each list
ssh_patterns ==
    Family("accepted", AcceptedBody)
      \o Family("failed_password", FailedPasswordBody)
      \o Family("failed", FailedBody)
      \o <<[action |-> "failed", pattern |-> SshPattern(SyslogStamp, AuthFailureBody)]>>
      \o Family("invalid_user", InvalidUserBody)
      \o Family("break_in", BreakInBody)
      \o Family("disconnect", DisconnectBody)

\* the first pattern of the list, from the i-th on, that re.search finds in
\* the line: <<[action, match]>>, or <<>> when none does
RECURSIVE FirstMatch(_, _, _)
FirstMatch(patterns, line, i) ==
    IF i > Len(patterns) THEN <<>>
    ELSE LET match == re_search(patterns[i].pattern, line) IN
         IF match # <<>> THEN <<[action |-> patterns[i].action, match |-> match]>>
         ELSE FirstMatch(patterns, line, i + 1)

\* Optional[Dict]: None
NoEntry == <<>>

\* parse_log_line(line): <<entry>>, or NoEntry for None
parse_log_line(line) ==
    LET found == FirstMatch(log_patterns, line, 1) IN
    IF found = <<>> THEN NoEntry
    ELSE <<[timestamp |-> Group(line, found[1].match, 1),
            jail |-> Group(line, found[1].match, 2),
            ip |-> Group(line, found[1].match, 3),
            action |-> found[1].action,
            raw_line |-> line]>>

\* parse_ssh_log_line(line): <<entry>>, or NoEntry for None
parse_ssh_log_line(line) ==
    IF ~Contains(line, Sshd) THEN NoEntry
    ELSE LET found == FirstMatch(ssh_patterns, line, 1) IN
         IF found = <<>> THEN NoEntry
         ELSE LET action == found[1].action
                  match == found[1].match
              IN
              IF action = "break_in"
                THEN <<[timestamp |-> Group(line, match, 1), user |-> Unknown,
                        ip |-> Group(line, match, 2), action |-> action, raw_line |-> line]>>
              ELSE IF action = "failed" /\ Contains(line, TxtAuthFailure)
                THEN <<[timestamp |-> Group(line, match, 1), user |-> Group(line, match, 3),
                        ip |-> Group(line, match, 2), action |-> action, raw_line |-> line]>>
              ELSE IF action = "failed_password"
                THEN <<[timestamp |-> Group(line, match, 1), user |-> Group(line, match, 2),
                        ip |-> Group(line, match, 3), action |-> action,
                        failure_type |-> "Mot de passe incorrect", raw_line |-> line]>>
              ELSE <<[timestamp |-> Group(line, match, 1), user |-> Group(line, match, 2),
                      ip |-> Group(line, match, 3), action |-> action, raw_line |-> line]>>


\* lines of an auth log

LineAccepted == <<"J", "a", "n", " ", " ", "5", " ", "1", "0", ":", "0", "0",
    ":", "0", "0", " ", "h", " ", "s", "s", "h", "d", "[", "1", "]", ":",
    " ", "A", "c", "c", "e", "p", "t", "e", "d", " ", "p", "a", "s", "s",
    "w", "o", "r", "d", " ", "f", "o", "r", " ", "r", "o", "o", "t", " ",
    "f", "r", "o", "m", " ", "1", "0", ".", "0", ".", "0", ".", "5", " ",
    "p", "o", "r", "t", " ", "2", "2">>

LineAcceptedIso == <<"2", "0", "2", "4", "-", "0", "1", "-", "0", "5", "T",
    "1", "0", ":", "0", "0", ":", "0", "0", " ", "h", " ", "s", "s", "h",
    "d", "[", "1", "]", ":", " ", "A", "c", "c", "e", "p", "t", "e", "d",
    " ", "p", "u", "b", "l", "i", "c", "k", "e", "y", " ", "f", "o", "r",
    " ", "r", "o", "o", "t", " ", "f", "r", "o", "m", " ", "1", ".", "1",
    ".", "1", ".", "1">>

LineFailedInvalid == <<"J", "a", "n", " ", " ", "5", " ", "1", "0", ":", "0",
    "0", ":", "0", "0", " ", "h", " ", "s", "s", "h", "d", "[", "1", "]",
    ":", " ", "F", "a", "i", "l", "e", "d", " ", "p", "a", "s", "s", "w",
    "o", "r", "d", " ", "f", "o", "r", " ", "i", "n", "v", "a", "l", "i",
    "d", " ", "u", "s", "e", "r", " ", "a", "d", "m", "i", "n", " ", "f",
    "r", "o", "m", " ", "1", "0", ".", "0", ".", "0", ".", "5", " ", "p",
    "o", "r", "t", " ", "2", "2">>

LineFailedPassword == <<"J", "a", "n", " ", " ", "5", " ", "1", "0", ":",
    "0", "0", ":", "0", "0", " ", "h", " ", "s", "s", "h", "d", "[", "1",
    "]", ":", " ", "F", "a", "i", "l", "e", "d", " ", "p", "a", "s", "s",
    "w", "o", "r", "d", " ", "f", "o", "r", " ", "r", "o", "o", "t", " ",
    "f", "r", "o", "m", " ", "1", ".", "1", ".", "1", ".", "1", " ", "p",
    "o", "r", "t", " ", "2", "2">>

LineFailedKey == <<"J", "a", "n", " ", " ", "5", " ", "1", "0", ":", "0",
    "0", ":", "0", "0", " ", "h", " ", "s", "s", "h", "d", "[", "1", "]",
    ":", " ", "F", "a", "i", "l", "e", "d", " ", "p", "u", "b", "l", "i",
    "c", "k", "e", "y", " ", "f", "o", "r", " ", "r", "o", "o", "t", " ",
    "f", "r", "o", "m", " ", "1", ".", "1", ".", "1", ".", "1">>

LineAuthFailure == <<"J", "a", "n", " ", " ", "5", " ", "1", "0", ":", "0",
    "0", ":", "0", "0", " ", "h", " ", "s", "s", "h", "d", "[", "1", "]",
    ":", " ", "a", "u", "t", "h", "e", "n", "t", "i", "c", "a", "t", "i",
    "o", "n", " ", "f", "a", "i", "l", "u", "r", "e", ";", " ", "r", "h",
    "o", "s", "t", "=", "1", ".", "1", ".", "1", ".", "1", " ", "u", "s",
    "e", "r", "=", "r", "o", "o", "t">>

LineInvalidUser == <<"J", "a", "n", " ", " ", "5", " ", "1", "0", ":", "0",
    "0", ":", "0", "0", " ", "h", " ", "s", "s", "h", "d", "[", "1", "]",
    ":", " ", "I", "n", "v", "a", "l", "i", "d", " ", "u", "s", "e", "r",
    " ", "a", "d", "m", "i", "n", " ", "f", "r", "o", "m", " ", "8", ".",
    "8", ".", "8", ".", "8">>

LineBreakIn == <<"J", "a", "n", " ", " ", "5", " ", "1", "0", ":", "0", "0",
    ":", "0", "0", " ", "h", " ", "s", "s", "h", "d", "[", "1", "]", ":",
    " ", "P", "O", "S", "S", "I", "B", "L", "E", " ", "B", "R", "E", "A",
    "K", "-", "I", "N", " ", "A", "T", "T", "E", "M", "P", "T", "!", " ",
    "f", "r", "o", "m", " ", "8", ".", "8", ".", "8", ".", "8">>

LineDisconnect == <<"J", "a", "n", " ", " ", "5", " ", "1", "0", ":", "0",
    "0", ":", "0", "0", " ", "h", " ", "s", "s", "h", "d", "[", "1", "]",
    ":", " ", "D", "i", "s", "c", "o", "n", "n", "e", "c", "t", "e", "d",
    " ", "f", "r", "o", "m", " ", "i", "n", "v", "a", "l", "i", "d", " ",
    "u", "s", "e", "r", " ", "a", "d", "m", "i", "n", " ", "8", ".", "8",
    ".", "8", ".", "8", " ", "p", "o", "r", "t", " ", "2", "2">>

LineShortIp == <<"J", "a", "n", " ", " ", "5", " ", "1", "0", ":", "0", "0",
    ":", "0", "0", " ", "h", " ", "s", "s", "h", "d", "[", "1", "]", ":",
    " ", "F", "a", "i", "l", "e", "d", " ", "p", "a", "s", "s", "w", "o",
    "r", "d", " ", "f", "o", "r", " ", "r", "o", "o", "t", " ", "f", "r",
    "o", "m", " ", "1", "0", ".", "0", ".", "0", " ", "p", "o", "r", "t",
    " ", "2", "2">>

LineBigOctet == <<"J", "a", "n", " ", " ", "5", " ", "1", "0", ":", "0", "0",
    ":", "0", "0", " ", "h", " ", "s", "s", "h", "d", "[", "1", "]", ":",
    " ", "F", "a", "i", "l", "e", "d", " ", "p", "a", "s", "s", "w", "o",
    "r", "d", " ", "f", "o", "r", " ", "r", "o", "o", "t", " ", "f", "r",
    "o", "m", " ", "9", "9", "9", ".", "1", ".", "1", ".", "1", " ", "p",
    "o", "r", "t", " ", "2", "2">>

LineHyphenUser == <<"J", "a", "n", " ", " ", "5", " ", "1", "0", ":", "0",
    "0", ":", "0", "0", " ", "h", " ", "s", "s", "h", "d", "[", "1", "]",
    ":", " ", "F", "a", "i", "l", "e", "d", " ", "p", "a", "s", "s", "w",
    "o", "r", "d", " ", "f", "o", "r", " ", "i", "n", "v", "a", "l", "i",
    "d", " ", "u", "s", "e", "r", " ", "w", "w", "w", "-", "d", "a", "t",
    "a", " ", "f", "r", "o", "m", " ", "1", ".", "1", ".", "1", ".", "1">>

LineCron == <<"J", "a", "n", " ", " ", "5", " ", "1", "0", ":", "0", "0",
    ":", "0", "0", " ", "h", " ", "c", "r", "o", "n", "[", "1", "]", ":",
    " ", "F", "a", "i", "l", "e", "d", " ", "p", "a", "s", "s", "w", "o",
    "r", "d", " ", "f", "o", "r", " ", "r", "o", "o", "t", " ", "f", "r",
    "o", "m", " ", "1", ".", "1", ".", "1", ".", "1">>

LineBlank == <<" ", " ">>

\* a line written two days before the others
LineStale == <<"J", "a", "n", " ", " ", "3", " ", "1", "0", ":", "0", "0",
    ":", "0", "0", " ", "h", " ", "s", "s", "h", "d", "[", "1", "]", ":",
    " ", "F", "a", "i", "l", "e", "d", " ", "p", "a", "s", "s", "w", "o",
    "r", "d", " ", "f", "o", "r", " ", "r", "o", "o", "t", " ", "f", "r",
    "o", "m", " ", "8", ".", "8", ".", "8", ".", "8", " ", "p", "o", "r",
    "t", " ", "2", "2">>

SshLines ==
    {LineAccepted, LineAcceptedIso, LineFailedInvalid, LineFailedPassword,
     LineFailedKey, LineAuthFailure, LineInvalidUser, LineBreakIn,
     LineDisconnect, LineShortIp, LineBigOctet, LineHyphenUser,
     LineCron, LineBlank,
     LineStale}

\* lines of fail2ban.log

LineBan == <<"2", "0", "2", "4", "-", "0", "1", "-", "0", "5", " ", "1", "0",
    ":", "0", "0", ":", "0", "0", ",", "1", "2", "3", " ", "a", "c", "t",
    "i", "o", "n", "s", " ", "[", "1", "]", ":", " ", "N", "O", "T", "I",
    "C", "E", " ", "[", "s", "s", "h", "d", "]", " ", "B", "A", "N", " ",
    "1", ".", "1", ".", "1", ".", "1">>

LineUnban == <<"2", "0", "2", "4", "-", "0", "1", "-", "0", "5", " ", "1",
    "0", ":", "0", "0", ":", "0", "0", ",", "1", "2", "3", " ", "a", "c",
    "t", "i", "o", "n", "s", " ", "[", "1", "]", ":", " ", "N", "O", "T",
    "I", "C", "E", " ", "[", "s", "s", "h", "d", "]", " ", "U", "N", "B",
    "A", "N", " ", "1", ".", "1", ".", "1", ".", "1">>

LineFound == <<"2", "0", "2", "4", "-", "0", "1", "-", "0", "5", " ", "1",
    "0", ":", "0", "0", ":", "0", "0", ",", "1", "2", "3", " ", "f", "i",
    "l", "t", "e", "r", " ", "[", "1", "]", ":", " ", "I", "N", "F", "O",
    " ", "[", "s", "s", "h", "d", "]", " ", "F", "o", "u", "n", "d", " ",
    "8", ".", "8", ".", "8", ".", "8">>

LineBanMixed == <<"2", "0", "2", "4", "-", "0", "1", "-", "0", "5", " ", "1",
    "0", ":", "0", "0", ":", "0", "0", ",", "1", "2", "3", " ", "a", "c",
    "t", "i", "o", "n", "s", " ", "[", "1", "]", ":", " ", "N", "O", "T",
    "I", "C", "E", " ", "[", "s", "s", "h", "d", "]", " ", "B", "a", "n",
    " ", "1", ".", "1", ".", "1", ".", "1">>

LineBanShortIp == <<"2", "0", "2", "4", "-", "0", "1", "-", "0", "5", " ",
    "1", "0", ":", "0", "0", ":", "0", "0", ",", "1", "2", "3", " ", "a",
    "c", "t", "i", "o", "n", "s", " ", "[", "1", "]", ":", " ", "N", "O",
    "T", "I", "C", "E", " ", "[", "s", "s", "h", "d", "]", " ", "B", "A",
    "N", " ", "1", "0", ".", "0", ".", "0">>

LineBanBigOctet == <<"2", "0", "2", "4", "-", "0", "1", "-", "0", "5", " ",
    "1", "0", ":", "0", "0", ":", "0", "0", ",", "1", "2", "3", " ", "a",
    "c", "t", "i", "o", "n", "s", " ", "[", "1", "]", ":", " ", "N", "O",
    "T", "I", "C", "E", " ", "[", "s", "s", "h", "d", "]", " ", "B", "A",
    "N", " ", "9", "9", "9", ".", "1", ".", "1", ".", "1">>

Fail2banLines ==
    {LineBan, LineUnban, LineFound,
     LineBanMixed, LineBanShortIp, LineBanBigOctet}

(***************************************************************************)
(* The sessions                                                            *)
(***************************************************************************)

Call(entry, op, jail, ip, ban_time) ==
    [entry |-> entry, op |-> op, jail |-> jail, ip |-> ip, ban_time |-> ban_time]

NoCall == Call("none", "none", <<>>, <<>>, <<>>)

\* entries that are widgets of the dashboard; "manager" is a direct call
UiEntries == {"ban_button", "unban_button", "save_button", "reset_button"}

Ended(s, c, log, r, msg) == [session |-> s, call |-> c, cmds |-> log, ret |-> r, shown |-> msg]

NoneEnded == Ended("none", NoCall, <<>>, NoRet, "none")

NoStreak == [jail |-> <<>>, ip |-> <<>>, n |-> 0]

\* no script run of the session has begun
NoRun == [pings |-> <<>>, loaded |-> FALSE, rendered |-> FALSE]

\* initialize_session_state: cache_timestamp = {} (a key that is absent holds no
\* time)
NoTimestamps == [jails_data |-> <<>>, banned_ips |-> <<>>]

\* initialize_session_state: show_config_editor = False, editing_jail = None,
\* auto_refresh = True
InitialUiState == [show_config_editor |-> FALSE, editing_jail |-> <<>>, auto_refresh |-> TRUE]

\* no call of refresh_data yet
NoRefresh == [session |-> "none", force |-> FALSE, queries |-> 0, n |-> 0]

Init ==
    /\ srvJails = ConfiguredJails
    /\ srvConfig = [j \in ConfiguredJails |-> DefaultConfig]
    /\ srvBans = {}
    /\ pc = [s \in Sessions |-> "idle"]
    /\ call = [s \in Sessions |-> NoCall]
    /\ cmds = [s \in Sessions |-> <<>>]
    /\ ret = [s \in Sessions |-> NoRet]
    /\ shown = [s \in Sessions |-> "none"]
    /\ jails_data = [s \in Sessions |-> <<>>]
    /\ banned_ips_data = [s \in Sessions |-> <<>>]
    /\ ended = NoneEnded
    /\ streak = NoStreak
    /\ srvRunning = TRUE
    /\ run = [s \in Sessions |-> NoRun]
    /\ ncalls = 0
    /\ nfaults = 0
    /\ nrefresh = 0
    /\ geolocation_cache = EmptyDict
    /\ cache_timestamps = EmptyDict
    /\ now = 0
    /\ geo = [c \in GeoCallers |-> NoLookup]
    /\ geo_ended = NoGeoEnded
    /\ nlookups = 0
    /\ auth_log = <<>>
    /\ fail2ban_log = <<>>
    /\ ssh_lines = <<>>
    /\ ssh_entries = <<>>
    /\ ssh_stats = <<>>
    /\ log_entries = <<>>
    /\ nlines = 0
    /\ ssh_read = "none"
    /\ log_read = "none"
    /\ cache_timestamp = [s \in Sessions |-> NoTimestamps]
    /\ last_update = [s \in Sessions |-> 0]
    /\ ui_state = [s \in Sessions |-> InitialUiState]
    /\ refreshed = NoRefresh
    /\ status_lines = <<>>
    /\ status = <<>>

\* the commands of a log that went wrong
FaultsIn(log) == Cardinality({i \in 1..Len(log) : log[i].fault # "none"})

\* the streak once a handler that ran call c has ended with result r
StreakAfter(c, r) ==
    IF c.op = "ban_ip_with_time" /\ c.ban_time = <<-1>> /\ r.kind = "returned" /\ r.success
      THEN IF streak.jail = c.jail /\ streak.ip = c.ip /\ streak.n > 0
             THEN [streak EXCEPT !.n = 2]
           ELSE [jail |-> c.jail, ip |-> c.ip, n |-> 1]
    ELSE NoStreak

\* the handler of session s is over, and the session waits for the next
\* interaction
End(s, c, log, r, msg) ==
    /\ ended' = Ended(s, c, log, r, msg)
    /\ streak' = StreakAfter(c, r)
    /\ pc' = [pc EXCEPT ![s] = "idle"]
    /\ call' = [call EXCEPT ![s] = NoCall]
    /\ cmds' = [cmds EXCEPT ![s] = <<>>]
    /\ ret' = [ret EXCEPT ![s] = NoRet]
    /\ shown' = [shown EXCEPT ![s] = "none"]
    /\ run' = [run EXCEPT ![s] = IF run[s] = NoRun THEN NoRun
                                 ELSE IF c.entry = "run" THEN [run[s] EXCEPT !.loaded = TRUE]
                                 ELSE [run[s] EXCEPT !.rendered = TRUE]]
    /\ UNCHANGED srvRunning

\* session s, running call c, takes the step whose outcome is o: the server
\* changes as o says; when the method has not returned it goes on at next_pc;
\* when it has, a dashboard handler shows st.success and goes on to
\* refresh_data(force=True), or shows st.error and is over, and a direct call
\* is over with its result
Step(s, c, o, next_pc) ==
    LET ok == o.ret.kind = "returned" /\ o.ret.success
        ui == c.entry \in UiEntries
        before == IF pc[s] = "idle" THEN 0 ELSE FaultsIn(cmds[s])
    IN
    /\ nfaults' = nfaults + FaultsIn(o.log) - before
    /\ nfaults' <= MaxFaults
    /\ srvJails' = o.jails
    /\ srvConfig' = o.config
    /\ srvBans' = o.bans
    /\ IF o.done /\ ~(ui /\ ok)
         THEN End(s, c, o.log, o.ret, IF ui THEN "error" ELSE "none")
       ELSE /\ pc' = [pc EXCEPT ![s] = IF o.done THEN "refresh_jails" ELSE next_pc]
            /\ call' = [call EXCEPT ![s] = c]
            /\ cmds' = [cmds EXCEPT ![s] = o.log]
            /\ ret' = [ret EXCEPT ![s] = o.ret]
            /\ shown' = [shown EXCEPT ![s] = IF o.done THEN "success" ELSE "none"]
            /\ ended' = NoneEnded
            /\ UNCHANGED <<streak, run, srvRunning>>
    /\ UNCHANGED <<viewVars, geoVars, logVars, uiVars, nrefresh>>

\* the last liveness check of the session's script run found no server:
\* st.error and st.stop(), the run is over
RunStopped(s) ==
    /\ run[s].pings # <<>>
    /\ ~is_fail2ban_running(run[s].pings[Len(run[s].pings)])

\* the script run has passed check_system_status() of __init__ and the check of
\* run(), and is at its data load and the rendering of its tab
RunChecked(s) ==
    /\ Len(run[s].pings) = 2
    /\ ~RunStopped(s)
    /\ ~run[s].rendered

\* a handler of the dashboard may start: the session is between handlers
MayStart(s) ==
    /\ pc[s] = "idle"
    /\ ncalls < MaxCalls

\* a direct caller may call a manager method
MayCall(s) ==
    /\ pc[s] = "idle"
    /\ ncalls < MaxManagerCalls

Started == ncalls' = ncalls + 1

\* a caller invokes manager.ban_ip(jail, ip)
ban_ip(s) ==
    /\ MayCall(s)
    /\ Started
    /\ \E jail \in JailInputs, ip \in IpInputs, fault \in Faults :
          Step(s, Call("manager", "ban_ip", jail, ip, <<>>),
               ban_ip_method(jail, ip, fault), "idle")

\* a caller invokes manager.ban_ip_with_time(jail, ip, ban_time): the method runs
\* up to and with its 'set <jail> bantime' command
ban_ip_with_time(s) ==
    /\ MayCall(s)
    /\ Started
    /\ \E jail \in JailInputs, ip \in IpInputs, t \in BanTimes, fault \in Faults :
          Step(s, Call("manager", "ban_ip_with_time", jail, ip, <<t>>),
               ban_ip_with_time_bantime(jail, ip, t, fault), "banip")

\* ban_ip_with_time goes on with its 'set <jail> banip' command and returns
ban_ip_with_time_rest(s) ==
    /\ pc[s] = "banip"
    /\ UNCHANGED ncalls
    /\ \E fault \in Faults :
          Step(s, call[s],
               ban_ip_with_time_banip(call[s].jail, call[s].ip, call[s].ban_time[1],
                                      cmds[s], fault), "idle")

\* a caller invokes manager.unban_ip(jail, ip)
unban_ip(s) ==
    /\ MayCall(s)
    /\ Started
    /\ \E jail \in JailInputs, ip \in IpInputs, fault \in Faults :
          Step(s, Call("manager", "unban_ip", jail, ip, <<>>),
               unban_ip_method(jail, ip, fault), "idle")

\* a caller invokes manager.reload_jail(jail)
reload_jail(s) ==
    /\ MayCall(s)
    /\ Started
    /\ \E jail \in JailInputs, fault \in Faults :
          Step(s, Call("manager", "reload_jail", jail, <<>>, <<>>),
               reload_jail_method(jail, fault), "idle")

\* a caller invokes manager.start_jail(jail)
start_jail(s) ==
    /\ MayCall(s)
    /\ Started
    /\ \E jail \in JailInputs, fault \in Faults :
          Step(s, Call("manager", "start_jail", jail, <<>>, <<>>),
               start_jail_method(jail, fault), "idle")

\* a caller invokes manager.stop_jail(jail)
stop_jail(s) ==
    /\ MayCall(s)
    /\ Started
    /\ \E jail \in JailInputs, fault \in Faults :
          Step(s, Call("manager", "stop_jail", jail, <<>>, <<>>),
               stop_jail_method(jail, fault), "idle")

\* render_ip_management, "Bannir IP": the button is enabled for a non-empty
\* address; an address that does not validate gets st.error and no call;
\* otherwise execute_ban runs the manager method for the chosen ban type
ban_button(s) ==
    /\ MayStart(s)
    /\ Started
    /\ \E jail \in active_jails(s), ip \in IpInputs, ban_type \in BanTypes, fault \in Faults :
        \E custom \in CustomBantimes(ban_type) :
          LET d == execute_ban(ban_type, custom)
              c == Call("ban_button", d.op, jail, ip, d.ban_time)
          IN  IF ~validate_ip_address(ip)
                THEN Step(s, c, Outcome(NoExec, <<>>, TRUE, NoRet), "idle")
              ELSE IF d.op = "ban_ip"
                THEN Step(s, c, ban_ip_method(jail, ip, fault), "idle")
              ELSE Step(s, c, ban_ip_with_time_bantime(jail, ip, d.ban_time[1], fault), "banip")

\* render_ip_management, "Debannir" next to an address of banned_ips_data
unban_button(s) ==
    /\ MayStart(s)
    /\ Started
    /\ \E jail \in DOMAIN banned_ips_data[s], fault \in Faults :
        \E ip \in banned_ips_data[s][jail] :
          Step(s, Call("unban_button", "unban_ip", jail, ip, <<>>),
               unban_ip_method(jail, ip, fault), "idle")

\* render_jail_config_editor, "Sauvegarder": save_jail_config starts with its
\* 'set <jail> bantime' command; the form offers a duration or Permanent
save_button(s) ==
    /\ MayStart(s)
    /\ Started
    /\ \E jail \in active_jails(s), bantime \in CustomDurations \cup {-1}, fault \in Faults :
          Step(s, Call("save_button", "save_jail_config", jail, <<>>, <<bantime>>),
               save_jail_config_set("bantime", jail, bantime, <<>>, fault), "maxretry")

\* save_jail_config goes on with 'set <jail> maxretry'; the form's value is the
\* one it was filled with
save_jail_config_maxretry(s) ==
    /\ pc[s] = "maxretry"
    /\ UNCHANGED ncalls
    /\ \E fault \in Faults :
          Step(s, call[s],
               save_jail_config_set("maxretry", call[s].jail, DefaultConfig.maxretry,
                                    cmds[s], fault), "findtime")

\* save_jail_config ends with 'set <jail> findtime' and returns the conjunction
save_jail_config_findtime(s) ==
    /\ pc[s] = "findtime"
    /\ UNCHANGED ncalls
    /\ \E findtime \in {3600}, fault \in Faults :
          Step(s, call[s],
               save_jail_config_set("findtime", call[s].jail, findtime, cmds[s], fault), "idle")

\* render_jail_config_editor, "Reinitialiser": reset_jail_config reloads the jail
reset_button(s) ==
    /\ MayStart(s)
    /\ Started
    /\ \E jail \in active_jails(s), fault \in Faults :
          Step(s, Call("reset_button", "reload_jail", jail, <<>>, <<>>),
               reload_jail_method(jail, fault), "idle")

\* Fail2banManager.get_jail_status(jail) as the dashboard uses it: the jail's
\* banned addresses when the status command succeeds, enabled = False otherwise
get_jail_status(jail, ok) ==
    IF ok /\ srvRunning /\ jail \in srvJails
      THEN [name |-> jail, enabled |-> TRUE,
            banned_ips |-> {b.ip : b \in {x \in srvBans : x.jail = jail}}]
    ELSE [name |-> jail, enabled |-> FALSE, banned_ips |-> {}]

\* Fail2banManager.get_jails_list: the server's jails, none when status fails
get_jails_list(ok) == IF ok /\ srvRunning THEN srvJails ELSE {}

\* the status commands of a refresh that went wrong count as faults; the
\* per-jail status is not asked when the list failed
ReadFaults(ok_list, ok_status) ==
    /\ (~ok_list => ok_status)
    /\ nfaults' = nfaults + (IF ok_list /\ ok_status THEN 0 ELSE 1)
    /\ nfaults' <= MaxFaults

RECURSIVE SetToSeq(_)
SetToSeq(S) == IF S = {} THEN <<>> ELSE LET x == CHOOSE x \in S : TRUE IN <<x>> \o SetToSeq(S \ {x})

\* refresh_data, first half: jails_data = manager.get_all_jails_status()
refresh_data_jails(s) ==
    /\ pc[s] = "refresh_jails"
    /\ \E ok_list \in BOOLEAN, ok_status \in BOOLEAN :
          LET jails == SetToSeq(get_jails_list(ok_list)) IN
          /\ ReadFaults(ok_list, ok_status)
          /\ jails_data' = [jails_data EXCEPT ![s] =
                            [i \in 1..Len(jails) |-> get_jail_status(jails[i], ok_status)]]
    /\ pc' = [pc EXCEPT ![s] = "refresh_banned"]
    /\ ended' = NoneEnded
    /\ UNCHANGED <<viewVars, geoVars, logVars, srvVars, call, cmds, ret, shown, banned_ips_data, streak, run, srvRunning,
                   ncalls, nrefresh>>

\* refresh_data, second half: banned_ips_data = manager.get_banned_ips()
refresh_data_banned(s) ==
    /\ pc[s] = "refresh_banned"
    /\ \E ok_list \in BOOLEAN, ok_status \in BOOLEAN :
          LET enabled == {j \in get_jails_list(ok_list) : get_jail_status(j, ok_status).enabled} IN
          /\ ReadFaults(ok_list, ok_status)
          /\ banned_ips_data' = [banned_ips_data EXCEPT ![s] =
                                 [j \in enabled |-> get_jail_status(j, ok_status).banned_ips]]
    /\ End(s, call[s], cmds[s], ret[s], shown[s])
    /\ UNCHANGED <<viewVars, geoVars, logVars, srvVars, jails_data, ncalls, nrefresh>>

\* run(): the data load of a script run, refresh_data()
run_refresh(s) ==
    /\ pc[s] = "idle"
    /\ nrefresh < MaxRefresh
    /\ nrefresh' = nrefresh + 1
    /\ pc' = [pc EXCEPT ![s] = "refresh_jails"]
    /\ call' = [call EXCEPT ![s] = Call("run", "refresh_data", <<>>, <<>>, <<>>)]
    /\ ended' = NoneEnded
    /\ UNCHANGED <<viewVars, geoVars, logVars, srvVars, uiVars, cmds, ret, shown, streak, run, srvRunning, ncalls, nfaults>>

\* one liveness check of a script run: [client, 'ping'] through
\* is_fail2ban_running; without a pong the run shows st.error and stops
LivenessCheck(s, op) ==
    \E fault \in Faults :
        LET x == Exec(Command("ping", <<>>, <<>>), fault)
            pings == (IF op = "check_system_status" THEN <<>> ELSE run[s].pings)
                        \o <<x.entry.result>>
        IN  /\ nfaults' = nfaults + (IF fault = "none" THEN 0 ELSE 1)
            /\ nfaults' <= MaxFaults
            /\ run' = [run EXCEPT ![s] = [NoRun EXCEPT !.pings = pings]]
            /\ ended' = IF x.raised \/ ~is_fail2ban_running(x.entry.result)
                          THEN Ended(s, Call("run", op, <<>>, <<>>, <<>>), <<x.entry>>,
                                     IF x.raised THEN Raised ELSE NoRet, "error")
                        ELSE NoneEnded
            /\ UNCHANGED <<viewVars, geoVars, logVars, srvVars, srvRunning, uiVars, pc, call, cmds, ret, shown, streak,
                           ncalls, nrefresh>>

\* Fail2ShieldApp.__init__: check_system_status(), the first thing a script run
\* does; a run starts when the session's last one, if it had one, is over
check_system_status(s) ==
    /\ pc[s] = "idle"
    /\ run[s] = NoRun \/ RunStopped(s) \/ run[s].rendered
    /\ LivenessCheck(s, "check_system_status")

\* run(): "Check if fail2ban is still running"
run_is_fail2ban_running(s) ==
    /\ pc[s] = "idle"
    /\ Len(run[s].pings) = 1
    /\ ~RunStopped(s)
    /\ LivenessCheck(s, "run")

\* run(): the selected tab is rendered from the session's data and no widget
\* was pressed; the script run is over
render_dashboard_content(s) ==
    /\ pc[s] = "idle"
    /\ RunChecked(s)
    /\ run' = [run EXCEPT ![s].rendered = TRUE]
    /\ ended' = Ended(s, Call("run", "render", <<>>, <<>>, <<>>), <<>>, NoRet, "views")
    /\ UNCHANGED <<viewVars, geoVars, logVars, srvVars, srvRunning, uiVars, pc, call, cmds, ret, shown, streak,
                   ncalls, nfaults, nrefresh>>

\* the fail2ban service stops
fail2ban_stops ==
    /\ srvRunning
    /\ srvRunning' = FALSE
    /\ ended' = NoneEnded
    /\ UNCHANGED <<viewVars, geoVars, logVars, srvVars, uiVars, pc, call, cmds, ret, shown, streak, run,
                   ncalls, nfaults, nrefresh>>

\* the dashboard under a server that stays up: sessions whose script runs have
\* passed their liveness checks load the data and run handlers side by side
Next ==
    \/ \E s \in Sessions : ban_button(s)
    \/ \E s \in Sessions : ban_ip_with_time_rest(s)
    \/ \E s \in Sessions : unban_button(s)
    \/ \E s \in Sessions : save_button(s)
    \/ \E s \in Sessions : save_jail_config_maxretry(s)
    \/ \E s \in Sessions : save_jail_config_findtime(s)
    \/ \E s \in Sessions : reset_button(s)
    \/ \E s \in Sessions : run_refresh(s)
    \/ \E s \in Sessions : refresh_data_jails(s)
    \/ \E s \in Sessions : refresh_data_banned(s)

Spec == Init /\ [][Next]_vars

\* one caller of the manager's methods, with arguments of its choice
Caller == "s1"

ManagerNext ==
    \/ ban_ip(Caller)
    \/ ban_ip_with_time(Caller)
    \/ ban_ip_with_time_rest(Caller)
    \/ unban_ip(Caller)
    \/ reload_jail(Caller)
    \/ start_jail(Caller)
    \/ stop_jail(Caller)

ManagerSpec == Init /\ [][ManagerNext]_vars

\* run(), after its liveness check: the initial data load, once in a run
run_initial_load(s) ==
    /\ RunChecked(s)
    /\ ~run[s].loaded
    /\ run_refresh(s)

\* run(), the selected tab: render_ip_management and in it the handler of the
\* widget that was pressed, those of the configuration editor included
render_ip_management(s) ==
    /\ RunChecked(s)
    /\ ban_button(s) \/ unban_button(s) \/ save_button(s) \/ reset_button(s)

\* the script runs of one session, from check_system_status() on, under a
\* server that may stop
RunNext ==
    \/ check_system_status(Caller)
    \/ run_is_fail2ban_running(Caller)
    \/ run_initial_load(Caller)
    \/ refresh_data_jails(Caller)
    \/ refresh_data_banned(Caller)
    \/ render_dashboard_content(Caller)
    \/ render_ip_management(Caller)
    \/ ban_ip_with_time_rest(Caller)
    \/ save_jail_config_maxretry(Caller)
    \/ save_jail_config_findtime(Caller)
    \/ fail2ban_stops

RunSpec == Init /\ [][RunNext]_vars

(***************************************************************************)
(* utils.parse_fail2ban_log, utils.parse_ssh_logs and                      *)
(* utils.get_ssh_connection_stats                                          *)
(***************************************************************************)

\* lines written to the two logs in a behaviour
MaxLogLines == 3

\* parse_log_line on the lines of fail2ban.log, computed once
log_line_entries == [line \in Fail2banLines |-> parse_log_line(line)]

\* parse_ssh_log_line on the lines of the authentication log, computed once
ssh_line_entries == [line \in SshLines |-> parse_ssh_log_line(line)]

\* what may happen to a read of a log: it works, the file is not there, it
\* may not be read, tail exits with an error of its own, tail runs past the
\* timeout
ReadOutcomes == {"ok", "missing", "denied", "exit1", "timeout"}

\* subprocess.run(['tail', '-n', str(lines), log_path], ..., timeout=...) on a
\* file shorter than the lines asked for
tail(file, outcome) ==
    [raised |-> outcome = "timeout",
     returncode |-> IF outcome = "ok" THEN 0 ELSE 1,
     stdout |-> IF outcome = "ok" THEN file ELSE <<>>]

\* the loop of parse_fail2ban_log: the entries of the lines that are not blank
RECURSIVE fail2ban_entries(_)
fail2ban_entries(lines) ==
    IF lines = <<>> THEN <<>>
    ELSE LET line == lines[Len(lines)]
             entries == fail2ban_entries(SubSeq(lines, 1, Len(lines) - 1))
         IN IF Strip(line) # <<>> THEN entries \o log_line_entries[line] ELSE entries

\* parse_fail2ban_log(log_path): the entries of the lines tail gave; none when
\* tail raised or exited with an error
parse_fail2ban_log(file, outcome) ==
    LET result == tail(file, outcome) IN
    IF result.raised THEN <<>>
    ELSE IF result.returncode = 0 THEN fail2ban_entries(result.stdout)
    ELSE <<>>

\* the loop of parse_ssh_logs: the entries of the lines that are not blank and
\* hold 'sshd'
RECURSIVE ssh_log_entries(_)
ssh_log_entries(lines) ==
    IF lines = <<>> THEN <<>>
    ELSE LET line == lines[Len(lines)]
             entries == ssh_log_entries(SubSeq(lines, 1, Len(lines) - 1))
         IN IF Strip(line) # <<>> /\ Contains(line, Sshd)
              THEN entries \o ssh_line_entries[line]
            ELSE entries

\* parse_ssh_logs(log_path): none when the path does not exist, is not
\* readable, or tail raised or exited with an error
parse_ssh_logs(file, outcome) ==
    IF outcome = "missing" THEN <<>>
    ELSE IF outcome = "denied" THEN <<>>
    ELSE LET result == tail(file, outcome) IN
         IF result.raised THEN <<>>
         ELSE IF result.returncode = 0 THEN ssh_log_entries(result.stdout)
         ELSE <<>>

\* stats before the first entry
NoStats ==
    [accepted |-> <<>>, failed |-> <<>>, failed_password |-> <<>>,
     invalid_user |-> <<>>, break_in |-> <<>>,
     total_accepted |-> 0, total_failed |-> 0, total_failed_password |-> 0,
     unique_ips |-> {},
     top_attacking_ips |-> <<>>, top_users_failed |-> <<>>,
     top_users_accepted |-> <<>>, failure_types |-> <<>>]

\* a dict of the statistics: its items, [key, value], in insertion order
Keys(d) == {d[i].key : i \in 1..Len(d)}

\* d[key] = value: in place for a key the dict holds, at the end for a new one
ItemSet(d, key, value) ==
    IF key \in Keys(d)
      THEN [i \in 1..Len(d) |-> IF d[i].key = key THEN [key |-> key, value |-> value] ELSE d[i]]
    ELSE Append(d, [key |-> key, value |-> value])

\* d.get(key, default)
ItemGet(d, key, default) ==
    IF key \in Keys(d) THEN d[CHOOSE i \in 1..Len(d) : d[i].key = key].value ELSE default

\* if key not in d: d[key] = []; d[key].append(value)
Appended(d, key, value) == ItemSet(d, key, ItemGet(d, key, <<>>) \o <<value>>)

\* a mutation: a count that goes up by two
Counted_Twice(d, key) == ItemSet(d, key, ItemGet(d, key, 0) + 2)

\* if key not in d: d[key] = 0; d[key] += 1
Counted(d, key) == ItemSet(d, key, ItemGet(d, key, 0) + 1)

\* a mutation: break-in attempts left out of the failures
other_failures_NoBreakIn == {"failed", "invalid_user"}

\* elif action in ['failed', 'invalid_user', 'break_in']
other_failures == {"failed", "invalid_user", "break_in"}

OtherFailureType(action) ==
    IF action = "failed" THEN "Autre echec"
    ELSE IF action = "invalid_user" THEN "Utilisateur invalide"
    ELSE "Tentative de piratage"

\* the body of the loop of get_ssh_connection_stats
count_entry(stats, entry) ==
    LET action == entry.action
        ip == entry.ip
        user == Get(entry, "user", Unknown)
        seen == [stats EXCEPT !.unique_ips = @ \cup {ip}]
    IN
    IF action = "accepted"
      THEN [seen EXCEPT !.total_accepted = @ + 1,
                        !.accepted = Appended(@, ip, user),
                        !.top_users_accepted = Counted(@, user)]
    ELSE IF action = "failed_password"
      THEN LET failure_type == Get(entry, "failure_type", "Mot de passe incorrect") IN
           [seen EXCEPT !.total_failed = @ + 1,
                        !.total_failed_password = @ + 1,
                        !.failed_password =
                            Appended(@, ip, [user |-> user, failure_type |-> failure_type]),
                        !.top_attacking_ips = Counted(@, ip),
                        !.top_users_failed = Counted(@, user),
                        !.failure_types = Counted(@, failure_type)]
    ELSE IF action \in other_failures
      THEN [seen EXCEPT !.total_failed = @ + 1,
                        !.failed =
                            Appended(@, ip, [user |-> user,
                                             failure_type |-> OtherFailureType(action)]),
                        !.top_attacking_ips = Counted(@, ip),
                        !.top_users_failed = Counted(@, user),
                        !.failure_types = Counted(@, OtherFailureType(action))]
    ELSE seen

RECURSIVE CountAll(_)
CountAll(entries) ==
    IF entries = <<>> THEN NoStats
    ELSE count_entry(CountAll(SubSeq(entries, 1, Len(entries) - 1)), entries[Len(entries)])

\* get_ssh_connection_stats(ssh_entries)
get_ssh_connection_stats(entries) ==
    LET stats == CountAll(entries) IN [stats EXCEPT !.unique_ips = Cardinality(@)]

\* an insertion sort by descending value: the items from the i-th on are put
\* one by one into the sorted items, each after the items that count more
\* and, when after_equals, after those that count as much
RECURSIVE InsertAll(_, _, _, _)
InsertAll(items, done, i, after_equals) ==
    IF i > Len(items) THEN done
    ELSE LET ahead == Cardinality({k \in 1..Len(done) :
                                     \/ done[k].value > items[i].value
                                     \/ after_equals /\ done[k].value = items[i].value})
         IN InsertAll(items,
                      SubSeq(done, 1, ahead) \o <<items[i]>> \o SubSeq(done, ahead + 1, Len(done)),
                      i + 1, after_equals)

\* a mutation: a sort that puts an item ahead of the items with the same count
sorted_desc_TiesReversed(items) == InsertAll(items, <<>>, 1, FALSE)

\* sorted(d.items(), key=lambda x: x[1], reverse=True): a stable sort
sorted_desc(items) == InsertAll(items, <<>>, 1, TRUE)

\* render_ssh_analysis: top_attackers, the first ten of the sorted items
top_attackers(stats) ==
    LET ranked == sorted_desc(stats.top_attacking_ips) IN
    SubSeq(ranked, 1, IF Len(ranked) < 10 THEN Len(ranked) ELSE 10)

\* sshd writes a line to the authentication log
sshd_writes ==
    /\ nlines < MaxLogLines
    /\ \E line \in SshLines : auth_log' = Append(auth_log, line)
    /\ nlines' = nlines + 1
    /\ UNCHANGED <<viewVars, appVars, geoVars, fail2ban_log, ssh_lines, ssh_entries, ssh_stats, log_entries,
                   ssh_read, log_read>>

\* fail2ban writes a line to its log
fail2ban_writes ==
    /\ nlines < MaxLogLines
    /\ \E line \in Fail2banLines : fail2ban_log' = Append(fail2ban_log, line)
    /\ nlines' = nlines + 1
    /\ UNCHANGED <<viewVars, appVars, geoVars, auth_log, ssh_lines, ssh_entries, ssh_stats, log_entries,
                   ssh_read, log_read>>

\* render_ssh_analysis: without a log file from find_ssh_log_file it warns
\* and returns; else the log is parsed and, when it gave entries, counted
render_ssh_analysis ==
    /\ \E outcome \in ReadOutcomes \cup {"not_found"} :
          /\ ssh_read' = outcome
          /\ ssh_lines' = IF outcome = "ok" THEN auth_log ELSE <<>>
          /\ ssh_entries' = IF outcome = "not_found" THEN <<>>
                            ELSE parse_ssh_logs(auth_log, outcome)
    /\ ssh_stats' = IF ssh_entries' = <<>> THEN <<>>
                    ELSE <<get_ssh_connection_stats(ssh_entries')>>
    /\ UNCHANGED <<viewVars, appVars, geoVars, auth_log, fail2ban_log, log_entries, nlines, log_read>>

\* render_logs_viewer: the log is parsed; a missing or unreadable file makes
\* tail exit with an error
render_logs_viewer ==
    /\ \E outcome \in ReadOutcomes :
          /\ log_read' = outcome
          /\ log_entries' = parse_fail2ban_log(fail2ban_log,
                                               IF outcome \in {"missing", "denied"} THEN "exit1"
                                               ELSE outcome)
    /\ UNCHANGED <<viewVars, appVars, geoVars, auth_log, fail2ban_log, ssh_lines, ssh_entries, ssh_stats,
                   nlines, ssh_read>>

LogNext == sshd_writes \/ fail2ban_writes \/ render_ssh_analysis \/ render_logs_viewer

LogSpec == Init /\ [][LogNext]_vars

\* one caller looks addresses up, one lookup after the other, as time passes
GeoNext ==
    \/ \E ip \in GeoInputs : nlookups < MaxLookups /\ lookup(GeoCaller, ip)
    \/ response(GeoCaller)
    \/ store_timestamp(GeoCaller)
    \/ tick

GeoSpec == Init /\ [][GeoNext]_vars

\* the script runs of several sessions look public addresses up at once
GeoBurstNext ==
    \/ \E c \in GeoCallers, ip \in PublicIps : nlookups < MaxBurst /\ lookup(c, ip)
    \/ \E c \in GeoCallers : response(c)
    \/ \E c \in GeoCallers : store_timestamp(c)

GeoBurstSpec == Init /\ [][GeoBurstNext]_vars

(***************************************************************************)
(* Fail2banManager.get_jail_status: the status text of a jail               *)
(***************************************************************************)

TxtFilter == <<"F", "i", "l", "t", "e", "r">>

TxtActions == <<"A", "c", "t", "i", "o", "n", "s">>

TxtCurrentlyFailed == <<"C", "u", "r", "r", "e", "n", "t", "l", "y", " ",
    "f", "a", "i", "l", "e", "d", ":">>

TxtTotalFailed == <<"T", "o", "t", "a", "l", " ", "f", "a", "i", "l", "e",
    "d", ":">>

TxtCurrentlyBanned == <<"C", "u", "r", "r", "e", "n", "t", "l", "y", " ",
    "b", "a", "n", "n", "e", "d", ":">>

TxtTotalBanned == <<"T", "o", "t", "a", "l", " ", "b", "a", "n", "n", "e",
    "d", ":">>

TxtBannedIpList == <<"B", "a", "n", "n", "e", "d", " ", "I", "P", " ", "l",
    "i", "s", "t", ":">>

\* str.split(): the runs of characters that are no whitespace
RECURSIVE SplitWhitespace(_)
SplitWhitespace(s) ==
    LET t == LStrip(s) IN
    IF t = <<>> THEN <<>>
    ELSE LET blanks == {i \in 1..Len(t) : t[i] \in Whitespace}
             n == IF blanks = {} THEN Len(t) + 1
                  ELSE CHOOSE i \in blanks : \A k \in blanks : i <= k
         IN <<SubSeq(t, 1, n - 1)>> \o SplitWhitespace(SubSeq(t, n, Len(t)))

\* a mutation: the text after the last colon of the line
AfterColon_Last(line) ==
    LET colons == {i \in 1..Len(line) : line[i] = ":"}
        last == CHOOSE i \in colons : \A k \in colons : k <= i
    IN Strip(SubSeq(line, last + 1, Len(line)))

\* line.split(':', 1)[1].strip(), for a line that holds a colon
AfterColon(line) == Strip(SubSeq(line, FirstIndex(line, ":") + 1, Len(line)))

\* int(re.search(r'\d+', line).group()): <<the number>>, <<>> when there is no
\* digit in the line and the statement raises
FirstNumber(line) ==
    LET m == re_search(<<Open(1), Rep("d", 1, Unbounded), Close(1)>>, line) IN
    IF m = <<>> THEN <<>> ELSE <<DecimalValue(Group(line, m, 1))>>

\* [x.strip() for x in parts if x.strip()]
RECURSIVE StrippedParts(_)
StrippedParts(parts) ==
    IF parts = <<>> THEN <<>>
    ELSE (IF Strip(parts[1]) = <<>> THEN <<>> ELSE <<Strip(parts[1])>>)
           \o StrippedParts(Tail(parts))

\* get_jail_status: status before the loop over the lines
DefaultStatus(jail_name) ==
    [name |-> jail_name, enabled |-> TRUE, filter |-> <<>>, actions |-> <<>>,
     currently_failed |-> 0, total_failed |-> 0, currently_banned |-> 0, total_banned |-> 0,
     banned_ips |-> <<>>]

\* status[field] = int(...) inside try / except: pass
WithNumber(st, field, line) ==
    IF FirstNumber(line) = <<>> THEN st ELSE [st EXCEPT ![field] = FirstNumber(line)[1]]

\* get_jail_status: one turn of the loop over the lines
status_line(st, raw) ==
    LET line == Strip(raw) IN
    IF Contains(line, TxtFilter) /\ ":" \in Chars(line)
      THEN [st EXCEPT !.filter = AfterColon(line)]
    ELSE IF Contains(line, TxtActions) /\ ":" \in Chars(line)
      THEN [st EXCEPT !.actions = StrippedParts(Split(AfterColon(line), ","))]
    ELSE IF Contains(line, TxtCurrentlyFailed) THEN WithNumber(st, "currently_failed", line)
    ELSE IF Contains(line, TxtTotalFailed) THEN WithNumber(st, "total_failed", line)
    ELSE IF Contains(line, TxtCurrentlyBanned) THEN WithNumber(st, "currently_banned", line)
    ELSE IF Contains(line, TxtTotalBanned) THEN WithNumber(st, "total_banned", line)
    ELSE IF Contains(line, TxtBannedIpList)
      THEN IF AfterColon(line) # <<>>
             THEN [st EXCEPT !.banned_ips = StrippedParts(SplitWhitespace(AfterColon(line)))]
           ELSE st
    ELSE st

RECURSIVE status_lines_from(_, _, _)
status_lines_from(st, lines, i) ==
    IF i > Len(lines) THEN st ELSE status_lines_from(status_line(st, lines[i]), lines, i + 1)

\* Fail2banManager.get_jail_status(jail_name) once the status command has
\* succeeded with stdout
jail_status(jail_name, stdout) ==
    status_lines_from(DefaultStatus(jail_name), Split(stdout, "\n"), 1)

\* "\n".join(lines)
RECURSIVE JoinLines(_)
JoinLines(lines) ==
    IF lines = <<>> THEN <<>>
    ELSE IF Len(lines) = 1 THEN lines[1]
    ELSE lines[1] \o <<"\n">> \o JoinLines(Tail(lines))

\* counters of the server's status text up to
MaxCount == 2

IpB == <<"8", ".", "8", ".", "8", ".", "8">>

IpSix == <<"2", "0", "0", "1", ":", "d", "b", "8", ":", ":", "1">>

LineStatusFor == <<"S", "t", "a", "t", "u", "s", " ", "f", "o", "r", " ",
    "t", "h", "e", " ", "j", "a", "i", "l", ":", " ", "s", "s", "h", "d">>

LineFilterTree == <<"|", "-", " ", "F", "i", "l", "t", "e", "r">>

PreCurrentlyFailed == <<"|", " ", " ", "|", "-", " ", "C", "u", "r", "r",
    "e", "n", "t", "l", "y", " ", "f", "a", "i", "l", "e", "d", ":", "\t">>

PreTotalFailed == <<"|", " ", " ", "|", "-", " ", "T", "o", "t", "a", "l",
    " ", "f", "a", "i", "l", "e", "d", ":", "\t">>

LineFileList == <<"|", " ", " ", Backtick, "-", " ", "F", "i", "l", "e", " ", "l",
    "i", "s", "t", ":", "\t", "/", "v", "a", "r", "/", "l", "o", "g", "/",
    "a", "u", "t", "h", ".", "l", "o", "g">>

LineActionsTree == <<Backtick, "-", " ", "A", "c", "t", "i", "o", "n", "s">>

PreCurrentlyBanned == <<" ", " ", " ", "|", "-", " ", "C", "u", "r", "r",
    "e", "n", "t", "l", "y", " ", "b", "a", "n", "n", "e", "d", ":", "\t">>

PreTotalBanned == <<" ", " ", " ", "|", "-", " ", "T", "o", "t", "a", "l",
    " ", "b", "a", "n", "n", "e", "d", ":", "\t">>

PreBannedIpList == <<" ", " ", " ", Backtick, "-", " ", "B", "a", "n", "n", "e",
    "d", " ", "I", "P", " ", "l", "i", "s", "t", ":", "\t">>

LineFileListFilter == <<"|", " ", " ", Backtick, "-", " ", "F", "i", "l", "e",
    " ", "l", "i", "s", "t", ":", "\t", "/", "v", "a", "r", "/", "l", "o",
    "g", "/", "F", "i", "l", "t", "e", "r", ".", "l", "o", "g">>

LineFilterName == <<"F", "i", "l", "t", "e", "r", ":", " ", "s", "s", "h",
    "d">>

LineActionsNames == <<"A", "c", "t", "i", "o", "n", "s", ":", " ", "i", "p",
    "t", "a", "b", "l", "e", "s", ",", " ", ",", "s", "e", "n", "d", "m",
    "a", "i", "l">>

LineBannedNoNumber == <<" ", " ", " ", "|", "-", " ", "C", "u", "r", "r",
    "e", "n", "t", "l", "y", " ", "b", "a", "n", "n", "e", "d", ":", "\t",
    "n", "o", "n", "e">>

LineJournal == <<"|", " ", " ", Backtick, "-", " ", "J", "o", "u", "r", "n", "a",
    "l", " ", "m", "a", "t", "c", "h", "e", "s", ":", "\t", "_", "C", "O",
    "M", "M", "=", "s", "s", "h", "d">>

\* addresses the server holds as banned
BannedInputs == {IpA, IpB, IpSix}

\* the lists of distinct banned addresses of at most n entries
BanLists(n) ==
    {banned \in UNION {[1..k -> BannedInputs] : k \in 0..n} :
        \A i, j \in 1..Len(banned) : i # j => banned[i] # banned[j]}

\* " ".join(words)
RECURSIVE JoinWords(_)
JoinWords(words) ==
    IF words = <<>> THEN <<>>
    ELSE IF Len(words) = 1 THEN words[1]
    ELSE words[1] \o <<" ">> \o JoinWords(Tail(words))

\* what 'fail2ban-client status sshd' prints for a jail with these counters
\* and banned addresses
StatusText(currently_failed, total_failed, banned, total_banned) ==
    <<LineStatusFor,
      LineFilterTree,
      PreCurrentlyFailed \o NatToStr(currently_failed),
      PreTotalFailed \o NatToStr(total_failed),
      LineFileList,
      LineActionsTree,
      PreCurrentlyBanned \o NatToStr(Len(banned)),
      PreTotalBanned \o NatToStr(total_banned),
      PreBannedIpList \o JoinWords(banned)>>

\* the status texts of the server: a jail has failed and banned no more often
\* in its current window than in total
ServerTexts ==
    {StatusText(x[1], x[2], x[3], x[4]) :
        x \in {y \in (0..MaxCount) \X (0..MaxCount) \X BanLists(MaxCount) \X (0..MaxCount) :
                 y[1] <= y[2] /\ Len(y[3]) <= y[4]}}

\* get_jail_status when the status command has failed
FailedStatus(jail_name) == [name |-> jail_name, enabled |-> FALSE, error |-> "Failed to get jail status"]

\* the jail changes in the server, and with it the text its status command
\* prints
server_status_changes ==
    /\ status_lines = <<>> \/ status_lines \in ServerTexts
    /\ \E text \in ServerTexts : status_lines' = text
    /\ status' = <<>>
    /\ UNCHANGED <<appVars, geoVars, logVars, cacheVars>>

\* lines of a status text, as the server prints them and otherwise: a label
\* line without a number, 'Filter:' and 'Actions:' lines, lines with labels the
\* method does not read
StatusLineInputs ==
    {LineFilterTree,
     PreCurrentlyFailed \o <<"1">>,
     PreTotalFailed \o <<"2">>,
     PreCurrentlyBanned \o <<"1">>,
     PreBannedIpList \o IpA,
     LineBannedNoNumber,
     LineFilterName,
     LineActionsNames,
     LineFileList,
     LineFileListFilter,
     LineJournal}

\* lines of a status text in a behaviour
MaxStatusLines == 3

\* a status text other than the server's grows by a line
status_text_line ==
    /\ Len(status_lines) < MaxStatusLines
    /\ \E line \in StatusLineInputs : status_lines' = Append(status_lines, line)
    /\ status' = <<>>
    /\ UNCHANGED <<appVars, geoVars, logVars, cacheVars>>

\* Fail2banManager.get_jail_status('sshd'): the status command fails, or
\* succeeds and prints the status text
get_jail_status_query ==
    /\ \E ok \in BOOLEAN :
          status' = IF ok THEN <<jail_status(Sshd, JoinLines(status_lines))>>
                    ELSE <<FailedStatus(Sshd)>>
    /\ UNCHANGED <<appVars, geoVars, logVars, cacheVars, status_lines>>

StatusNext == server_status_changes \/ status_text_line \/ get_jail_status_query

StatusSpec == Init /\ [][StatusNext]_vars

(***************************************************************************)
(* Fail2ShieldApp.refresh_data and its cache                               *)
(***************************************************************************)

\* initialize_cache: self.cache_duration, in seconds
cache_duration == 30

\* calls of refresh_data in a behaviour
MaxRefreshCalls == 3

\* the times at which something happens
RefreshTimes == {0, 10, 29, 30, 40, 60}

\* a mutation: is_data_cached that finds nothing in the cache
is_data_cached_Never(s, data_type, current_time) == FALSE

\* Fail2ShieldApp.is_data_cached(data_type, current_time)
is_data_cached(s, data_type, current_time) ==
    IF cache_timestamp[s][data_type] = <<>> THEN FALSE
    ELSE LET time_diff == current_time - cache_timestamp[s][data_type][1]
         IN time_diff < cache_duration

\* the status commands of one round over the jails: 'status', and 'status <jail>'
\* for every jail of the list
StatusCommands(ok_list) == 1 + Cardinality(get_jails_list(ok_list))

\* Fail2banManager.get_all_jails_status()
get_all_jails_status(ok_list, ok_status) ==
    LET jails == SetToSeq(get_jails_list(ok_list)) IN
    [i \in 1..Len(jails) |-> get_jail_status(jails[i], ok_status)]

\* Fail2banManager.get_banned_ips()
get_banned_ips(ok_list, ok_status) ==
    LET enabled == {j \in get_jails_list(ok_list) : get_jail_status(j, ok_status).enabled} IN
    [j \in enabled |-> get_jail_status(j, ok_status).banned_ips]

\* Fail2ShieldApp.refresh_data(force) of session s, from its first line to its
\* return
refresh_data(s, force) ==
    /\ pc[s] = "idle"
    /\ refreshed.n < MaxRefreshCalls
    /\ LET current_time == now IN
       IF ~force /\ is_data_cached(s, "jails_data", current_time)
         THEN /\ refreshed' = [session |-> s, force |-> force, queries |-> 0,
                               n |-> refreshed.n + 1]
              /\ UNCHANGED <<uiVars, cache_timestamp, last_update, ui_state, nfaults>>
       ELSE \E ok_list \in BOOLEAN, ok_status \in BOOLEAN, ok_list2 \in BOOLEAN,
               ok_status2 \in BOOLEAN :
              LET saved == ui_state[s]
                  faults == (IF ok_list /\ ok_status THEN 0 ELSE 1)
                              + (IF ok_list2 /\ ok_status2 THEN 0 ELSE 1)
              IN
              /\ ~ok_list => ok_status
              /\ ~ok_list2 => ok_status2
              /\ nfaults' = nfaults + faults
              /\ nfaults' <= MaxFaults
              /\ jails_data' = [jails_data EXCEPT ![s] = get_all_jails_status(ok_list, ok_status)]
              /\ banned_ips_data' = [banned_ips_data EXCEPT
                                       ![s] = get_banned_ips(ok_list2, ok_status2)]
              /\ cache_timestamp' = [cache_timestamp EXCEPT
                                       ![s] = [jails_data |-> <<current_time>>,
                                               banned_ips |-> <<current_time>>]]
              /\ last_update' = [last_update EXCEPT ![s] = current_time]
              /\ ui_state' = [ui_state EXCEPT ![s] = saved]
              /\ refreshed' = [session |-> s, force |-> force,
                               queries |-> StatusCommands(ok_list) + StatusCommands(ok_list2),
                               n |-> refreshed.n + 1]
    /\ UNCHANGED <<geoVars, logVars, statusVars, srvVars, pc, call, cmds, ret, shown, ended,
                   streak, run, srvRunning, ncalls, nrefresh>>

\* run(): refresh_data(force=False) of the auto-refresh and of the initial load
run_refresh_data(s) == refresh_data(s, FALSE)

\* the refresh button of the sidebar: refresh_data(force=True)
refresh_button(s) == refresh_data(s, TRUE)

\* no other variable than the UI state changes
OnlyUiState ==
    UNCHANGED <<appVars, geoVars, logVars, statusVars, cache_timestamp, last_update, refreshed>>

\* render_sidebar: the auto-refresh checkbox is switched
auto_refresh_checkbox(s) ==
    /\ ui_state' = [ui_state EXCEPT ![s].auto_refresh = ~ui_state[s].auto_refresh]
    /\ OnlyUiState

\* render_ip_management: the configuration editor of a jail is opened
config_button(s) ==
    /\ ~ui_state[s].show_config_editor
    /\ \E jail \in ConfiguredJails :
          ui_state' = [ui_state EXCEPT ![s].show_config_editor = TRUE,
                                       ![s].editing_jail = <<jail>>]
    /\ OnlyUiState

\* render_jail_config_editor: the editor is closed
cancel_button(s) ==
    /\ ui_state[s].show_config_editor
    /\ ui_state' = [ui_state EXCEPT ![s].show_config_editor = FALSE]
    /\ OnlyUiState

\* fail2ban bans an address, or a ban of it ends
fail2ban_bans ==
    /\ \E ip \in {IpA, IpB} :
          LET ban == [jail |-> Sshd, ip |-> ip, ttl |-> DefaultConfig.bantime] IN
          srvBans' = IF ban \in srvBans THEN srvBans \ {ban} ELSE srvBans \cup {ban}
    /\ UNCHANGED <<geoVars, logVars, viewVars, srvJails, srvConfig, pc, call, cmds, ret, shown,
                   uiVars, ended, streak, srvRunning, run, ncalls, nfaults, nrefresh>>

\* time passes between the script runs
time_passes ==
    /\ \E t \in RefreshTimes : t > now /\ now' = t
    /\ UNCHANGED <<appVars, logVars, viewVars, geolocation_cache, cache_timestamps, geo,
                   geo_ended, nlookups>>

\* the script runs of one session and its sidebar, while fail2ban bans and time
\* passes
CacheNext ==
    \/ run_refresh_data(Caller)
    \/ refresh_button(Caller)
    \/ auto_refresh_checkbox(Caller)
    \/ config_button(Caller)
    \/ cancel_button(Caller)
    \/ fail2ban_bans
    \/ time_passes

CacheSpec == Init /\ [][CacheNext]_vars

(***************************************************************************)
(* The claims                                                              *)
(***************************************************************************)

BanMethods == {"ban_ip", "ban_ip_with_time", "unban_ip"}

\* a handler has just ended that ran one of the manager's methods
MethodEnded(ops) == ended.call.op \in ops

\* the log entries of ended whose command has the verb
EntriesOf(verb) == {i \in 1..Len(ended.cmds) : ended.cmds[i].cmd.verb = verb}

HasDenyChar(text) == Chars(text) \cap dangerous_chars # {}

\* C1: for every jail name and every string that is no valid IPv4/IPv6 address,
\* ban_ip, ban_ip_with_time and unban_ip return (False, "Invalid IP address
\* format") and issue no command: none before the rejection, and the method is
\* never found between its commands with such an address.
C1_InvalidIpRejected ==
    /\ (MethodEnded(BanMethods) /\ ended.call.entry = "manager"
            /\ ~validate_ip_address(ended.call.ip))
          => (ended.ret = InvalidIp /\ ended.cmds = <<>>)
    /\ \A s \in Sessions :
          (call[s].op \in BanMethods /\ ~validate_ip_address(call[s].ip)) => cmds[s] = <<>>

\* C1, its case: a method has just rejected an address that is not valid
C1_Witness ==
    /\ MethodEnded({"ban_ip_with_time"})
    /\ ended.call.ip = IpInjected
    /\ ended.ret = InvalidIp

\* C2: for a valid address and a jail name that is not in the server's jail
\* list, ban_ip, ban_ip_with_time and unban_ip fail before any enforcement
\* command is issued.
C2_UnknownJailNoCommand ==
    (MethodEnded(BanMethods) /\ validate_ip_address(ended.call.ip)
        /\ ended.call.jail \notin srvJails)
      => (~ended.ret.success /\ ended.cmds = <<>>)

\* C3: a jail name or address that holds a deny-list character is rejected with
\* an error and no command is executed for it; no command is ever issued whose
\* jail argument differs from the jail name the caller supplied.
C3_DenyListRejected ==
    /\ (ended.call.op # "none"
            /\ (HasDenyChar(ended.call.jail) \/ HasDenyChar(ended.call.ip)))
          => (~ended.ret.success /\ ended.cmds = <<>>)
    /\ \A i \in 1..Len(ended.cmds) : ended.cmds[i].cmd.jail = ended.call.jail

\* C4: the ban duration reaches the server as requested: after a successful
\* ban_ip_with_time, duration -1 has left a permanent ban, duration 0 has left
\* no ban (no banip command took effect), and a positive duration t has left a
\* ban with time-to-live t.
C4_DurationSentinel ==
    (MethodEnded({"ban_ip_with_time"}) /\ ended.ret.success)
      => LET t == ended.call.ban_time[1]
             banip == ended.cmds[Len(ended.cmds)]
         IN  /\ t = -1 => banip.ttls = {-1}
             /\ t = 0 => \A i \in EntriesOf("banip") : ~ended.cmds[i].result[1]
             /\ t > 0 => banip.ttls = {t}

\* C5: a ban with an explicit duration leaves the jail's bantime alone, so a
\* ban_ip that newly bans an address gets the jail's configured default
\* duration (no caller of this specification reconfigures the jail).
C5_BanIpGetsJailDefault ==
    (MethodEnded({"ban_ip"}) /\ ended.ret.success /\ ended.cmds[1].result[2] = "1")
      => ended.cmds[1].ttls = {DefaultConfig.bantime}

\* C6: after two successful permanent bans of the same (jail, ip) in a row the
\* server holds exactly one ban of ip in that jail, and it has no expiry.
C6_PermanentBanIdempotent ==
    (MethodEnded({"ban_ip_with_time"}) /\ streak.n = 2)
      => ended.cmds[Len(ended.cmds)].ttls = {-1}

\* a session stands between the commands of a mutation of (jail, ip)
InFlight(s, jail, ip) ==
    /\ pc[s] = "banip"
    /\ sanitize_input(call[s].jail) = jail
    /\ sanitize_input(call[s].ip) = ip

\* C7: mutations are serialized per (jail, ip): at most one session at a time
\* stands between the set-bantime and the banip command of a ban of the same
\* jail and address.
C7_OneMutationPerKey ==
    \A s1, s2 \in Sessions :
        (s1 # s2 /\ pc[s1] = "banip")
          => ~InFlight(s2, sanitize_input(call[s1].jail), sanitize_input(call[s1].ip))

\* the addresses the session's re-read data lists as banned in the jail
Reread(s, jail) ==
    IF jail \in DOMAIN banned_ips_data[s] THEN banned_ips_data[s][jail] ELSE {}

\* C8: after a ban or unban that reported success, the status is re-read and
\* compared: when it does not show the address as banned (after a ban) or still
\* shows it (after an unban), the session gets a Desync warning, not a success.
C8_DesyncSurfaced ==
    /\ (ended.call.entry = "ban_button" /\ ended.ret.success
            /\ ended.call.ip \notin Reread(ended.session, ended.call.jail))
          => ended.shown = "desync"
    /\ (ended.call.entry = "unban_button" /\ ended.ret.success
            /\ ended.call.ip \in Reread(ended.session, ended.call.jail))
          => ended.shown = "desync"

\* C9: a failed enforcement write is never reported as success: when a command
\* a mutation issued has failed, the set-bantime command of ban_ip_with_time
\* included, the operation returns success = False.
C9_FailedWriteNotSuccess ==
    (ended.call.op # "none" /\ \E i \in 1..Len(ended.cmds) : ~ended.cmds[i].result[1])
      => ~ended.ret.success

TimedOut == <<FALSE, "", TimedOutText>>

\* the child process of a logged command runs past the timeout
RanPastTimeout(e) ==
    LET p == ChildProcess(e.fault, [returncode |-> 0, stdout |-> "", stderr |-> ""])
    IN  p.spawn_error = "" /\ p.duration > COMMAND_TIMEOUT

\* C10: every call of safe_execute_command ends: when the child process runs
\* past the timeout (10 s) the call returns (False, "", "Command timed out"), a
\* value no non-zero exit and no other exception gives, and no exception
\* reaches the caller.
C10_TimeoutDistinct ==
    /\ \A s \in Sessions : \A i \in 1..Len(cmds[s]) :
          RanPastTimeout(cmds[s][i]) <=> cmds[s][i].result = TimedOut
    /\ \A i \in 1..Len(ended.cmds) :
          RanPastTimeout(ended.cmds[i]) <=> ended.cmds[i].result = TimedOut
    /\ ended.ret.kind # "raised"
    /\ \A s \in Sessions : ret[s].kind # "raised"

\* C10, its case: a method has ended one of whose commands ran past the timeout
C10_Witness ==
    /\ ended.ret.kind = "returned"
    /\ \E i \in 1..Len(ended.cmds) :
          /\ ended.cmds[i].fault = "slow"
          /\ ended.cmds[i].result = TimedOut

MutationVerbs == SetVerbs \cup {"reload"}

\* the result of a ping that returned 'pong'
Ponged(result) == result[1] /\ result[2] = PongReply

\* the log holds a ban, unban or jail-configuration command
HasMutation(log) == \E i \in 1..Len(log) : log[i].cmd.verb \in MutationVerbs

C12_StoppedRunShowsData ==
    \A s \in Sessions :
        (RunStopped(s) /\ jails_data[s] # <<>>)
          => (run[s].rendered /\ ~HasMutation(cmds[s]))

\* the private, loopback and link-local addresses among the inputs
LocalInputs == {IpPrivate, IpLoopback, IpLinkLocal, IpLoopback6}

\* C13: a lookup of a private, loopback or link-local address returns the
\* local geo_info and never calls the provider, whether the cache holds no
\* entry for the address, a fresh one or an expired one
C13_PrivateNeverLeaves ==
    /\ \A c \in GeoCallers : geo[c].pc = "request" => geo[c].ip \notin LocalInputs
    /\ (geo_ended.caller # "none" /\ geo_ended.lookup.ip \in LocalInputs)
         => /\ geo_ended.lookup.geo_info = LocalGeoInfo
            /\ ~geo_ended.lookup.called

\* a loopback address looked up when its entry had expired
C13_Witness ==
    /\ geo_ended.caller # "none"
    /\ geo_ended.lookup.ip = IpLoopback
    /\ geo_ended.lookup.cached # <<>>
    /\ geo_ended.lookup.cached[1].cache_age >= CacheValidSeconds
    /\ geo_ended.lookup.geo_info = LocalGeoInfo

\* the callers whose request to the provider is outstanding
Outstanding == {c \in GeoCallers : geo[c].pc = "request"}

\* C14: lookups of the same public address that is not cached, made at the
\* same time, share one call of the provider: no two calls for one address
\* are outstanding at once
C14_LookupsCoalesce ==
    \A c1, c2 \in Outstanding : geo[c1].ip = geo[c2].ip => c1 = c2

\* C15: the calls of the provider that are outstanding at one time never
\* exceed MAX_CONCURRENT_REQUESTS
C15_OutstandingBounded == Cardinality(Outstanding) <= MAX_CONCURRENT_REQUESTS

\* the entry a finished lookup found in the cache, if any
FoundCached == geo_ended.caller # "none" /\ geo_ended.lookup.cached # <<>>

FoundFailure == FoundCached /\ geo_ended.lookup.cached[1].geo_info = get_default_geo_info

FoundSuccess ==
    /\ FoundCached
    /\ geo_ended.lookup.ip \in PublicIps
    /\ geo_ended.lookup.cached[1].geo_info # get_default_geo_info

\* C16: the 'unavailable' geo_info stored after a failure of the provider
\* lives strictly less than the hour of a success: a lookup that finds it
\* aged one second short of the hour calls the provider again
C16_FailureExpiresEarlier ==
    (FoundFailure /\ geo_ended.lookup.cached[1].cache_age >= CacheValidSeconds - 1)
      => geo_ended.lookup.called

\* C17: a lookup that finds a successful entry younger than 3600 s returns it
\* without calling the provider and leaves the cache as it was; one that finds
\* it aged 3600 s or more calls the provider, and when it returns the cache
\* holds the value it returns and the time it read at its start
C17_SuccessTtl ==
    FoundSuccess =>
      LET l == geo_ended.lookup
          found == l.cached[1]
      IN IF found.cache_age < CacheValidSeconds
           THEN /\ ~l.called
                /\ l.geo_info = found.geo_info
                /\ geolocation_cache[l.ip] = found.geo_info
                /\ cache_timestamps[l.ip] = l.current_time - found.cache_age
         ELSE /\ l.called
              /\ geolocation_cache[l.ip] = l.geo_info
              /\ cache_timestamps[l.ip] = l.current_time

\* a successful entry found at exactly 3600 s and replaced by another value
C17_Witness ==
    /\ FoundSuccess
    /\ geo_ended.lookup.cached[1].cache_age = CacheValidSeconds
    /\ geo_ended.lookup.called
    /\ geo_ended.lookup.geo_info # geo_ended.lookup.cached[1].geo_info
    /\ geolocation_cache[geo_ended.lookup.ip] = geo_ended.lookup.geo_info

\* C18: every entry that parse_log_line and parse_ssh_log_line return has a
\* syntactically valid address as its ip; a line whose address is malformed
\* gives no entry
C18_EntryIpValid ==
    /\ \A i \in 1..Len(log_entries) : validate_ip_address(log_entries[i].ip)
    /\ \A i \in 1..Len(ssh_entries) : validate_ip_address(ssh_entries[i].ip)

\* the order of the families
FamilyOrder == <<"accepted", "failed_password", "failed", "invalid_user", "break_in", "disconnect">>

\* the families one of whose patterns re.search finds in the line
families_found ==
    [line \in SshLines |->
       {ssh_patterns[i].action :
          i \in {k \in 1..Len(ssh_patterns) : re_search(ssh_patterns[k].pattern, line) # <<>>}}]

\* the earliest of the families in the order
Earliest(families) ==
    FamilyOrder[CHOOSE i \in 1..Len(FamilyOrder) :
                  /\ FamilyOrder[i] \in families
                  /\ \A k \in 1..(i - 1) : FamilyOrder[k] \notin families]

TxtRoot == <<"r", "o", "o", "t">>
TxtAdmin == <<"a", "d", "m", "i", "n">>
TxtWwwData == <<"w", "w", "w", "-", "d", "a", "t", "a">>
IpBigOctet == <<"9", "9", "9", ".", "1", ".", "1", ".", "1">>

\* the lines 'Failed password for [invalid user] U from IP' among the inputs,
\* with their U and IP
FailedPasswordLines ==
    {[line |-> LineFailedInvalid, user |-> TxtAdmin, ip |-> IpPrivate],
     [line |-> LineFailedPassword, user |-> TxtRoot, ip |-> IpA],
     [line |-> LineBigOctet, user |-> TxtRoot, ip |-> IpBigOctet],
     [line |-> LineHyphenUser, user |-> TxtWwwData, ip |-> IpA]}

\* the line, once read, has given a failed_password entry with its user, its
\* address and a failure type
YieldsFailedPassword(t) ==
    t.line \in Chars(ssh_lines)
      => \E i \in 1..Len(ssh_entries) :
            /\ ssh_entries[i].raw_line = t.line
            /\ ssh_entries[i].action = "failed_password"
            /\ ssh_entries[i].user = t.user
            /\ ssh_entries[i].ip = t.ip
            /\ "failure_type" \in DOMAIN ssh_entries[i]

\* every entry has the action of the earliest family that matches its line
FirstMatchWins ==
    \A i \in 1..Len(ssh_entries) :
        ssh_entries[i].action = Earliest(families_found[ssh_entries[i].raw_line])

EntriesWith(actions) == {i \in 1..Len(ssh_entries) : ssh_entries[i].action \in actions}

\* C20: the statistics of a list of entries have total_accepted the number of
\* 'accepted' entries, total_failed the number of failed_password, failed,
\* invalid_user and break_in entries, and unique_ips the number of distinct
\* addresses among all entries
C20_StatsTotals ==
    ssh_stats # <<>> =>
      /\ ssh_stats[1].total_accepted = Cardinality(EntriesWith({"accepted"}))
      /\ ssh_stats[1].total_failed =
            Cardinality(EntriesWith({"failed_password", "failed", "invalid_user", "break_in"}))
      /\ ssh_stats[1].unique_ips = Cardinality({ssh_entries[i].ip : i \in 1..Len(ssh_entries)})

\* three entries, an accepted one, a break-in attempt and an address repeated
C20_Witness ==
    /\ ssh_stats # <<>>
    /\ Len(ssh_entries) = 3
    /\ ssh_stats[1].total_accepted = 1
    /\ EntriesWith({"break_in"}) # {}
    /\ ssh_stats[1].total_failed = 2
    /\ ssh_stats[1].unique_ips = 2

\* the reads that failed
ReadFailures == {"missing", "denied", "exit1", "timeout"}

\* C23: a read of a log that failed, the file missing or unreadable, tail
\* exiting with an error or timing out, is never returned as a plain empty
\* list of entries
C23_ReadFailureNotEmpty ==
    /\ log_read \in ReadFailures => log_entries # <<>>
    /\ ssh_read \in ReadFailures => ssh_entries # <<>>

StaleStamp == <<"J", "a", "n", " ", " ", "3", " ", "1", "0", ":", "0", "0",
    ":", "0", "0">>

\* the entries older than the window: the log is read on Jan 5 at 10:00 and
\* the dashboard shows the last 24 hours
Stale(entries) == {i \in 1..Len(entries) : entries[i].timestamp = StaleStamp}

\* C21: an entry whose timestamp is older than the window counts toward none
\* of the statistics: the totals and the unique addresses are those of the
\* entries inside the window
C21_StatsWithinWindow ==
    ssh_stats # <<>> =>
      LET recent == (1..Len(ssh_entries)) \ Stale(ssh_entries) IN
      /\ ssh_stats[1].total_accepted = Cardinality(recent \cap EntriesWith({"accepted"}))
      /\ ssh_stats[1].total_failed =
            Cardinality(recent \cap EntriesWith({"failed_password", "failed", "invalid_user",
                                                 "break_in"}))
      /\ ssh_stats[1].unique_ips = Cardinality({ssh_entries[i].ip : i \in recent})

\* C22: across the reads of a growing log each line is turned into an entry at
\* most once: a read that follows an earlier one gives entries for the lines
\* written since then only
C22_LinesParsedOnce ==
    [][(ssh_read = "ok" /\ ssh_read' = "ok" /\ ssh_lines' # ssh_lines)
         => Len(ssh_entries') <= Len(ssh_lines') - Len(ssh_lines)]_vars

\* the place of the first failure entry with the address
FirstSeen(ip) ==
    CHOOSE i \in 1..Len(ssh_entries) :
        /\ ssh_entries[i].ip = ip
        /\ ssh_entries[i].action \in {"failed_password", "failed", "invalid_user", "break_in"}
        /\ \A k \in 1..(i - 1) :
              ~(ssh_entries[k].ip = ip /\ ssh_entries[k].action
                                            \in {"failed_password", "failed", "invalid_user", "break_in"})

\* C27: the ranking of attacking addresses is in descending order of their
\* counts, and addresses with the same count are in the order in which they
\* first occur as a failure in the entries
C27_RankingTiesFirstSeen ==
    ssh_stats # <<>> =>
      LET top == top_attackers(ssh_stats[1]) IN
      \A i, j \in 1..Len(top) :
          i < j => /\ top[i].value >= top[j].value
                   /\ top[i].value = top[j].value => FirstSeen(top[i].key) < FirstSeen(top[j].key)

\* two addresses with the same count, ranked in the order of their first failures
C27_Witness ==
    /\ ssh_stats # <<>>
    /\ LET top == top_attackers(ssh_stats[1]) IN
       /\ Len(top) = 2
       /\ top[1].value = top[2].value
       /\ top[1].key # top[2].key
       /\ FirstSeen(top[1].key) < FirstSeen(top[2].key)

\* the sum of the values of a dict
RECURSIVE SumValues(_)
SumValues(d) == IF d = <<>> THEN 0 ELSE d[1].value + SumValues(Tail(d))

\* the entries without the 'disconnect' ones
RECURSIVE WithoutDisconnects(_)
WithoutDisconnects(entries) ==
    IF entries = <<>> THEN <<>>
    ELSE (IF entries[1].action = "disconnect" THEN <<>> ELSE <<entries[1]>>)
           \o WithoutDisconnects(Tail(entries))

\* C28: the counts of top_attacking_ips, of failure_types and of
\* top_users_failed each add up to total_failed, total_failed_password is at
\* most total_failed, and 'disconnect' entries change unique_ips only
C28_StatsSums ==
    ssh_stats # <<>> =>
      LET stats == ssh_stats[1]
          others == get_ssh_connection_stats(WithoutDisconnects(ssh_entries))
      IN
      /\ SumValues(stats.top_attacking_ips) = stats.total_failed
      /\ SumValues(stats.failure_types) = stats.total_failed
      /\ SumValues(stats.top_users_failed) = stats.total_failed
      /\ stats.total_failed_password <= stats.total_failed
      /\ [stats EXCEPT !.unique_ips = 0] = [others EXCEPT !.unique_ips = 0]

\* a failure, a 'disconnect' from another address and an accepted connection
C28_Witness ==
    /\ ssh_stats # <<>>
    /\ \E i \in 1..Len(ssh_entries) : ssh_entries[i].action = "disconnect"
    /\ ssh_stats[1].total_failed >= 1
    /\ ssh_stats[1].total_failed_password < ssh_stats[1].total_failed
    /\ ssh_stats[1].unique_ips > Cardinality(Keys(ssh_stats[1].top_attacking_ips))

\* the refresh of session s has just ended
RefreshEnded(s) == ended.session = s /\ ended.call.op = "refresh_data"

\* C26: when a refresh has ended, the banned addresses of every enabled jail in
\* jails_data are the ones banned_ips_data holds for that jail, whatever
\* bans and unbans reached the server while the refresh ran
C26_RefreshSnapshot ==
    \A s \in Sessions :
        RefreshEnded(s) =>
          \A i \in 1..Len(jails_data[s]) :
              jails_data[s][i].enabled =>
                /\ jails_data[s][i].name \in DOMAIN banned_ips_data[s]
                /\ banned_ips_data[s][jails_data[s][i].name] = jails_data[s][i].banned_ips

\* C29: every command of ban_ip, ban_ip_with_time, unban_ip, reload_jail,
\* start_jail and stop_jail has a jail argument and an address argument without
\* deny-list characters, the address argument is the address the caller passed,
\* sanitize_input leaves every valid address as it is, and applying it twice
\* gives what applying it once gives
C29_CommandArgumentsClean ==
    /\ MethodEnded({"ban_ip", "ban_ip_with_time", "unban_ip", "reload_jail", "start_jail",
                    "stop_jail"})
         => \A i \in 1..Len(ended.cmds) :
               LET cmd == ended.cmds[i].cmd IN
               /\ ~HasDenyChar(cmd.jail)
               /\ cmd.verb \in {"banip", "unbanip"}
                    => (~HasDenyChar(cmd.arg) /\ cmd.arg = ended.call.ip)
    /\ \A text \in {ended.call.ip, ended.call.jail} :
          /\ validate_ip_address(text) => sanitize_input(text) = text
          /\ sanitize_input(sanitize_input(text)) = sanitize_input(text)

\* a status of a successful query has been returned
StatusReturned == status # <<>> /\ status[1].enabled

\* C24: the status get_jail_status returns for a status text of the server has
\* as many banned_ips as currently_banned says, no address twice in banned_ips,
\* total_banned >= currently_banned and total_failed >= currently_failed
C24_StatusCountsAgree ==
    (StatusReturned /\ status_lines \in ServerTexts) =>
      LET st == status[1] IN
      /\ st.currently_banned = Len(st.banned_ips)
      /\ \A i, j \in 1..Len(st.banned_ips) : i # j => st.banned_ips[i] # st.banned_ips[j]
      /\ st.total_banned >= st.currently_banned
      /\ st.total_failed >= st.currently_failed

\* the status of a jail with two banned addresses, one of them IPv6, that has
\* banned and failed more often in total than in its current window
C24_Witness ==
    /\ StatusReturned
    /\ status_lines \in ServerTexts
    /\ status[1].currently_banned = 2
    /\ IpSix \in Chars(status[1].banned_ips)
    /\ status[1].total_failed > status[1].currently_failed

\* the label of a line: what stands before its first colon
LabelOf(line) ==
    IF ":" \in Chars(line) THEN SubSeq(line, 1, FirstIndex(line, ":") - 1) ELSE <<>>

\* the labels get_jail_status reads, by the field they fill
FieldLabel ==
    [filter |-> TxtFilter, actions |-> TxtActions,
     currently_failed |-> SubSeq(TxtCurrentlyFailed, 1, Len(TxtCurrentlyFailed) - 1),
     total_failed |-> SubSeq(TxtTotalFailed, 1, Len(TxtTotalFailed) - 1),
     currently_banned |-> SubSeq(TxtCurrentlyBanned, 1, Len(TxtCurrentlyBanned) - 1),
     total_banned |-> SubSeq(TxtTotalBanned, 1, Len(TxtTotalBanned) - 1),
     banned_ips |-> SubSeq(TxtBannedIpList, 1, Len(TxtBannedIpList) - 1)]

CounterFields == {"currently_failed", "total_failed", "currently_banned", "total_banned"}

\* the lines of the status text with the label of the field
LinesOf(field) ==
    {i \in 1..Len(status_lines) : Contains(LabelOf(status_lines[i]), FieldLabel[field])}

\* the line has none of the labels
UnknownLabel(line) == \A field \in DOMAIN FieldLabel : ~Contains(LabelOf(line), FieldLabel[field])

\* a field whose label line is absent has its default
C25_AbsentKeepsDefault ==
    StatusReturned =>
      \A field \in DOMAIN FieldLabel :
          LinesOf(field) = {} => status[1][field] = DefaultStatus(Sshd)[field]

\* a counter whose label lines carry no number has its default
C25_NoNumberKeepsDefault ==
    StatusReturned =>
      \A field \in CounterFields :
          (\A i \in LinesOf(field) : Chars(status_lines[i]) \cap Digits = {})
            => status[1][field] = 0

\* the status is the one of the text without its lines of unknown labels
C25_UnknownChangesNothing ==
    StatusReturned =>
      status[1] = jail_status(Sshd, JoinLines(SelectSeq(status_lines,
                                                        LAMBDA line : ~UnknownLabel(line))))

\* the lines with the i-th and the j-th exchanged
Exchanged(lines, i, j) ==
    [k \in 1..Len(lines) |-> IF k = i THEN lines[j] ELSE IF k = j THEN lines[i] ELSE lines[k]]

\* the status of a text with at most one line for a label is the one of the
\* text with any two of its lines exchanged
C25_OrderIndependent ==
    (StatusReturned /\ \A field \in DOMAIN FieldLabel : Cardinality(LinesOf(field)) <= 1) =>
      \A i, j \in 1..Len(status_lines) :
          i < j => jail_status(Sshd, JoinLines(Exchanged(status_lines, i, j))) = status[1]

\* C25: a successful get_jail_status returns a status in which every field
\* whose label line is absent, or carries no number, has its default, lines
\* with unknown labels have changed nothing, and the order of the label lines
\* does not matter
C25_StatusTolerant ==
    /\ C25_AbsentKeepsDefault
    /\ C25_NoNumberKeepsDefault
    /\ C25_UnknownChangesNothing
    /\ C25_OrderIndependent

\* C30: a refresh_data(force=False) while the jails_data timestamp of the cache is
\* less than 30 s old issues no status command and leaves jails_data,
\* banned_ips_data, last_update and the cache timestamps as they were;
\* refresh_data(force=True) issues status commands; and after either,
\* show_config_editor, editing_jail and auto_refresh are what they were
C30_CachedRefreshFrame ==
    [][\A s \in Sessions :
          (refreshed'.n = refreshed.n + 1 /\ refreshed'.session = s) =>
            /\ (~refreshed'.force /\ cache_timestamp[s].jails_data # <<>>
                   /\ now - cache_timestamp[s].jails_data[1] < 30)
                 => /\ refreshed'.queries = 0
                    /\ UNCHANGED <<jails_data, banned_ips_data, last_update, cache_timestamp>>
            /\ refreshed'.force => refreshed'.queries > 0
            /\ ui_state'[s] = ui_state[s]]_vars

\* a refresh without force has returned from the cache, 29 s after the refresh
\* that filled it, with the editor open and a ban in the server that
\* jails_data does not show
C30_Witness ==
    /\ refreshed.n >= 2
    /\ ~refreshed.force
    /\ refreshed.queries = 0
    /\ cache_timestamp[refreshed.session].jails_data # <<>>
    /\ now - cache_timestamp[refreshed.session].jails_data[1] = 29
    /\ ui_state[refreshed.session].show_config_editor
    /\ srvBans # {}
    /\ \A i \in 1..Len(jails_data[refreshed.session]) :
          jails_data[refreshed.session][i].banned_ips = {}


=============================================================================
